---- MODULE Spec2Model ----
(***************************************************************************)
(* A model of the agent core of src/agent/core.py: the tool registry       *)
(* TOOLS, the dispatcher execute_tool and the conversation loop            *)
(* AIAgent.chat / AIAgent.reset_conversation.                              *)
(*                                                                         *)
(* Python strings are modelled as sequences of fragments (a fragment is a  *)
(* TLA+ string), concatenation as \o.  The two emoji markers of the source *)
(* are written in ASCII: "[X]" stands for U+274C (the failure marker) and  *)
(* "[OK]" for U+2705 (the success marker).                                 *)
(***************************************************************************)
EXTENDS Integers, Sequences, FiniteSets, TLC

VARIABLES conversation_history, pc, response, idx, tool_results, result,
          hist0, calls, last_exec, request, dumped, heap, sess,
          git, pages, ui, routed

vars == <<conversation_history, pc, response, idx, tool_results, result,
          hist0, calls, last_exec, request, dumped, heap, sess,
          git, pages, ui, routed>>

\* the state of the encoder specification and of the two-session
\* specification, which the other specifications leave alone
\* the state of the specifications of git_init_and_push, of
\* enable_github_pages, of the Streamlit page and of the router
tools == <<git, pages, ui, routed>>

others == <<dumped, heap, sess, tools>>

(***************************************************************************)
(* Bounds of the model.                                                    *)
(***************************************************************************)
\* the longest conversation_history explored (messages)
MaxHistory == 6
\* the most content blocks in one model response
MaxBlocks == 2
\* argument mappings explored by the dispatcher specification hold at most
\* this many keys, or lack at most this many of the keys the tool's schema names
MaxDelta == 2

(***************************************************************************)
(* Python values.                                                          *)
(***************************************************************************)
None == "None"

PyStr(frags) == [t |-> "str", v |-> frags]
PyNone == [t |-> "NoneType", v |-> <<>>]
PyDict(items) == [t |-> "dict", v |-> items]
PyList(elems) == [t |-> "list", v |-> elems]

Min(S) == CHOOSE x \in S : \A y \in S : x <= y

\* whether the string s (a sequence of fragments) contains the fragment f
Contains(s, f) == \E i \in 1..Len(s) : s[i] = f

\* "".join(parts), parts a sequence of strings
RECURSIVE Join(_)
Join(parts) == IF parts = <<>> THEN <<>> ELSE Head(parts) \o Join(Tail(parts))

(***************************************************************************)
(* json.dumps(value, indent=2): a dict is written item by item in the      *)
(* dict's own (insertion) order, a list element by element.  A dict is a   *)
(* sequence of <<key, encoded value>> pairs.                               *)
(***************************************************************************)
\* mutant: json.dumps(value, indent=2, sort_keys=True)
KeyRank ==
    [return_code |-> 1, stderr |-> 2, stdout |-> 3, success |-> 4]

RECURSIVE write_items(_)
write_items(items) ==
    IF items = <<>> THEN <<>>
    ELSE <<"\n  \"", items[1][1], "\": ", items[1][2]>>
         \o (IF Len(items) > 1 THEN <<",">> ELSE <<>>)
         \o write_items(Tail(items))

dumps_items_sorted(items) ==
    write_items(
        CHOOSE s \in [1..Len(items) -> {items[i] : i \in 1..Len(items)}] :
            \A i, j \in 1..Len(items) :
                i < j => KeyRank[s[i][1]] < KeyRank[s[j][1]])

RECURSIVE dumps_items(_)
dumps_items(items) ==
    IF items = <<>> THEN <<>>
    ELSE <<"\n  \"", items[1][1], "\": ", items[1][2]>>
         \o (IF Len(items) > 1 THEN <<",">> ELSE <<>>)
         \o dumps_items(Tail(items))

dumps_dict(items) ==
    IF items = <<>> THEN <<"{}">> ELSE <<"{">> \o dumps_items(items) \o <<"\n}">>

RECURSIVE dumps_elems(_)
dumps_elems(elems) ==
    IF elems = <<>> THEN <<>>
    ELSE <<"\n">> \o dumps_dict(elems[1].v)
         \o (IF Len(elems) > 1 THEN <<",">> ELSE <<>>)
         \o dumps_elems(Tail(elems))

json_dumps(value) ==
    IF value.t = "dict" THEN dumps_dict(value.v)
    ELSE IF value.t = "list"
         THEN (IF value.v = <<>> THEN <<"[]">>
               ELSE <<"[">> \o dumps_elems(value.v) \o <<"\n]">>)
    ELSE <<"\"">> \o value.v \o <<"\"">>

(***************************************************************************)
(* TOOLS: the registry passed to the model.  Each entry keeps the name,    *)
(* the property names, the required list and the enum of the selector      *)
(* property (sel = None when the schema has no selector).                  *)
(***************************************************************************)
TOOLS == <<
    [name |-> "convert_to_pdf",
     properties |-> {"input_path", "output_path"},
     required |-> <<"input_path">>, sel |-> None, enum |-> {}],
    [name |-> "modify_document",
     properties |-> {"input_path", "document_type", "replacements",
                     "cell_updates", "sheet_name", "output_path"},
     required |-> <<"input_path", "document_type">>,
     sel |-> "document_type", enum |-> {"word", "excel"}],
    [name |-> "modify_image",
     properties |-> {"input_path", "operation", "width", "height",
                     "target_format", "watermark_text", "brightness",
                     "contrast", "saturation", "output_path"},
     required |-> <<"input_path", "operation">>,
     sel |-> "operation",
     enum |-> {"resize", "convert_format", "add_watermark", "adjust"}],
    [name |-> "execute_code",
     properties |-> {"code", "timeout_seconds"},
     required |-> <<"code">>, sel |-> None, enum |-> {}],
    [name |-> "salesforce_query",
     properties |-> {"soql"},
     required |-> <<"soql">>, sel |-> None, enum |-> {}],
    [name |-> "create_video_content",
     properties |-> {"platform", "topic", "duration_seconds",
                     "video_length_minutes", "niche", "tone"},
     required |-> <<"platform", "topic">>,
     sel |-> "platform", enum |-> {"instagram_reel", "youtube"}],
    [name |-> "web_search",
     properties |-> {"query", "num_results", "search_depth"},
     required |-> <<"query">>, sel |-> None, enum |-> {}],
    [name |-> "forum_search",
     properties |-> {"query", "num_results"},
     required |-> <<"query">>, sel |-> None, enum |-> {}],
    [name |-> "deep_research",
     properties |-> {"topic"},
     required |-> <<"topic">>, sel |-> None, enum |-> {}],
    [name |-> "fetch_url",
     properties |-> {"url", "max_chars"},
     required |-> <<"url">>, sel |-> None, enum |-> {}],
    [name |-> "github_operation",
     properties |-> {"action", "repo_name", "description", "private",
                     "auto_init", "gitignore_template", "homepage", "files",
                     "commit_message", "branch", "create_branch",
                     "pages_path", "file_path", "tag", "release_title",
                     "release_body", "workflow_name", "workflow_yaml",
                     "limit"},
     required |-> <<"action">>,
     sel |-> "action",
     enum |-> {"create_repo", "push_files", "enable_pages", "list_repos",
               "get_repo", "get_user", "create_release", "read_file",
               "create_workflow"}],
    [name |-> "shell_execute",
     properties |-> {"action", "command", "working_directory",
                     "timeout_seconds", "file_path", "content", "path",
                     "remote_url", "local_dir", "branch", "repo_url"},
     required |-> <<"action">>,
     sel |-> "action",
     enum |-> {"run_command", "write_file", "read_file", "list_directory",
               "system_info", "git_push", "git_clone"}]
>>

ToolNames == {TOOLS[i].name : i \in 1..Len(TOOLS)}

Schema(name) == TOOLS[CHOOSE i \in 1..Len(TOOLS) : TOOLS[i].name = name]

(***************************************************************************)
(* Collaborators.  The dispatcher sees a collaborator only through what a  *)
(* call yields: a value of the function's declared return type, or an      *)
(* exception.  collab says which of the two the call made (if any) does.   *)
(***************************************************************************)
StrFunctions ==
    {"convert_any_to_pdf", "modify_word_document", "modify_excel_file",
     "resize_image", "convert_image_format", "add_watermark", "adjust_image",
     "web_search", "forum_search", "deep_research", "fetch_url",
     "read_file_from_repo", "create_workflow", "shell_read_file",
     "list_directory"}

DictFunctions ==
    {"execute_python_code", "create_instagram_reel_script",
     "create_youtube_video_package", "create_repository", "push_files",
     "enable_github_pages", "get_repository", "get_github_user",
     "create_release", "run_command", "write_file", "system_info",
     "git_init_and_push", "git_clone"}

ListFunctions == {"sf_client.execute_soql", "list_repositories"}

Collaborators == StrFunctions \cup DictFunctions \cup ListFunctions

StrResult == PyStr(<<"outputs/report.pdf">>)
DictResult == PyDict(<< <<"success", "true">>, <<"stdout", "\"done\"">> >>)
ListResult == PyList(<<DictResult>>)

\* how subprocess.run ends: the exit status of the child, or TimeoutExpired
Subprocess == {"exit 0", "exit 1", "timeout"}

\* json.dumps of a str, of a bool
Quoted(s) == "\"" \o s \o "\""
Bool(b) == IF b THEN "true" ELSE "false"

\* execute_python_code(code, timeout_seconds): the dict it returns when the
\* child exits, and the dict of its except subprocess.TimeoutExpired
execute_python_code(args, proc) ==
    IF proc = "timeout" THEN
        PyDict(<< <<"success", Bool(FALSE)>>,
                  <<"stdout", Quoted("")>>,
                  <<"stderr", Quoted("Execution timed out after "
                                     \o ToString(args.timeout_seconds)
                                     \o " seconds")>>,
                  <<"return_code", "-1">>,
                  <<"execution_time_seconds", ToString(args.timeout_seconds)>> >>)
    ELSE
        PyDict(<< <<"success", Bool(proc = "exit 0")>>,
                  <<"stdout", Quoted(IF proc = "exit 0" THEN "done" ELSE "")>>,
                  <<"stderr", Quoted(IF proc = "exit 0" THEN ""
                                     ELSE "Traceback")>>,
                  <<"return_code", IF proc = "exit 0" THEN "0" ELSE "1">>,
                  <<"execution_time_seconds", "0.012">> >>)

\* mutant: run_command reports success whatever the child did
run_command_reports_success(args, proc) ==
    PyDict(<< <<"success", Bool(TRUE)>>,
              <<"stdout", Quoted("done")>>,
              <<"stderr", Quoted("")>>,
              <<"return_code", "0">>,
              <<"elapsed_seconds", "0.01">>,
              <<"command", Quoted(args.command)>>,
              <<"working_directory", Quoted("apex_workspace")>> >>)

\* run_command(command, working_directory, timeout_seconds): the dict it
\* returns when the child exits, and the dict of its except
\* subprocess.TimeoutExpired
run_command(args, proc) ==
    LET work_dir == IF args.working_directory = None THEN "apex_workspace"
                    ELSE args.working_directory
    IN IF proc = "timeout" THEN
        PyDict(<< <<"success", Bool(FALSE)>>,
                  <<"stdout", Quoted("")>>,
                  <<"stderr", Quoted("Timed out after "
                                     \o ToString(args.timeout_seconds)
                                     \o " seconds")>>,
                  <<"return_code", "-1">>,
                  <<"elapsed_seconds", ToString(args.timeout_seconds)>>,
                  <<"command", Quoted(args.command)>>,
                  <<"working_directory", Quoted(work_dir)>> >>)
    ELSE
        PyDict(<< <<"success", Bool(proc = "exit 0")>>,
                  <<"stdout", Quoted(IF proc = "exit 0" THEN "done" ELSE "")>>,
                  <<"stderr", Quoted(IF proc = "exit 0" THEN ""
                                     ELSE "command not found")>>,
                  <<"return_code", IF proc = "exit 0" THEN "0" ELSE "1">>,
                  <<"elapsed_seconds", "0.01">>,
                  <<"command", Quoted(args.command)>>,
                  <<"working_directory", Quoted(work_dir)>> >>)

\* the value the collaborator fn returns; proc is how its child process
\* ended, for the two collaborators that run one
ReturnValue(fn, args, proc) ==
    IF fn = "execute_python_code" THEN execute_python_code(args, proc)
    ELSE IF fn = "run_command" THEN run_command(args, proc)
    ELSE IF fn \in StrFunctions THEN StrResult
    ELSE IF fn \in DictFunctions THEN DictResult
    ELSE ListResult

\* the exceptions a collaborator raises; str(e) is msg
Exceptions ==
    {[type |-> "FileNotFoundError",
      msg |-> <<"Input file not found: report.docx">>],
     [type |-> "ValueError",
      msg |-> <<"GITHUB_TOKEN is not set">>]}

\* KeyError(k), raised by tool_input[k]; str(e) is the repr of the key
KeyError(k) == [type |-> "KeyError", msg |-> <<"'", k, "'">>]

CollabOutcomes ==
    {[proc |-> p, kind |-> "return", exc |-> None] : p \in Subprocess}
    \cup {[proc |-> None, kind |-> "raise", exc |-> e] : e \in Exceptions}

(***************************************************************************)
(* execute_tool.  An outcome is how a piece of code ends (kind "return"    *)
(* with the value returned, or kind "raise" with the exception) and the    *)
(* collaborator calls it made, in order.                                   *)
(***************************************************************************)
Returns(v, c) == [kind |-> "return", value |-> v, calls |-> c]
Raises(e, c) == [kind |-> "raise", value |-> e, calls |-> c]

\* mutant: the value given for an argument is dropped and the default used
Get_default_only(tool_input, k, default) == default

\* tool_input.get(k, default)
Get(tool_input, k, default) ==
    IF k \in DOMAIN tool_input THEN tool_input[k] ELSE default

\* the first of the subscripted keys, in evaluation order, that tool_input lacks
\* (0: none)
FirstMissing(tool_input, keys) ==
    LET S == {i \in 1..Len(keys) : keys[i] \notin DOMAIN tool_input}
    IN IF S = {} THEN 0 ELSE Min(S)

\* how a branch turns the collaborator's value into its return value
FString(prefix) == [k |-> "fstring", prefix |-> prefix]
JsonDumps == [k |-> "json", prefix |-> <<>>]
Raw == [k |-> "raw", prefix |-> <<>>]

Wrap(wrap, v) ==
    IF wrap.k = "fstring" THEN PyStr(wrap.prefix \o v.v)
    ELSE IF wrap.k = "json" THEN PyStr(json_dumps(v))
    ELSE v

\* mutant: the arguments are read with .get, so a missing one reaches the
\* collaborator as None
Invoke_with_get(tool_input, keys, fn, args, collab, wrap) ==
    LET call == [fn |-> fn, args |-> args]
    IN IF collab.kind = "raise" THEN Raises(collab.exc, <<call>>)
       ELSE Returns(Wrap(wrap, ReturnValue(fn, args, collab.proc)), <<call>>)

\* One branch of the dispatcher: the arguments are evaluated left to right
\* (tool_input[k] raises KeyError for an absent key), then the collaborator
\* fn is called, then its value is wrapped and returned.
Invoke(tool_input, keys, fn, args, collab, wrap) ==
    LET m == FirstMissing(tool_input, keys)
        call == [fn |-> fn, args |-> args]
    IN IF m # 0 THEN Raises(KeyError(keys[m]), <<>>)
       ELSE IF collab.kind = "raise" THEN Raises(collab.exc, <<call>>)
       ELSE Returns(Wrap(wrap, ReturnValue(fn, args, collab.proc)), <<call>>)

modify_document(tool_input, collab) ==
    IF "document_type" \notin DOMAIN tool_input
    THEN Raises(KeyError("document_type"), <<>>)
    ELSE LET doc_type == tool_input["document_type"] IN
    IF doc_type = "word" THEN
        Invoke(tool_input, <<"input_path">>, "modify_word_document",
               [input_path |-> Get(tool_input, "input_path", None),
                replacements |-> Get(tool_input, "replacements", "{}"),
                output_path |-> Get(tool_input, "output_path", None)],
               collab, FString(<<"[OK] Word document modified: ">>))
    ELSE IF doc_type = "excel" THEN
        Invoke(tool_input, <<"input_path">>, "modify_excel_file",
               [input_path |-> Get(tool_input, "input_path", None),
                cell_updates |-> Get(tool_input, "cell_updates", "{}"),
                sheet_name |-> Get(tool_input, "sheet_name", None),
                output_path |-> Get(tool_input, "output_path", None)],
               collab, FString(<<"[OK] Excel file modified: ">>))
    \* no else branch: control leaves the if chain and the function ends
    ELSE Returns(PyNone, <<>>)

\* mutant: the dispatcher has no branch for the operation adjust
modify_image_without_adjust(tool_input, collab) ==
    LET m == FirstMissing(tool_input, <<"operation", "input_path">>) IN
    IF m # 0 THEN Raises(KeyError(<<"operation", "input_path">>[m]), <<>>)
    ELSE LET op == tool_input["operation"]
             input_path == tool_input["input_path"]
             output_path == Get(tool_input, "output_path", None)
             done == FString(<<"[OK] Image modified (", op, "): ">>)
    IN
    IF op = "resize" THEN
        Invoke(tool_input, <<"width", "height">>, "resize_image",
               [input_path |-> input_path,
                width |-> Get(tool_input, "width", None),
                height |-> Get(tool_input, "height", None),
                output_path |-> output_path],
               collab, done)
    ELSE IF op = "convert_format" THEN
        Invoke(tool_input, <<"target_format">>, "convert_image_format",
               [input_path |-> input_path,
                target_format |-> Get(tool_input, "target_format", None),
                output_path |-> output_path],
               collab, done)
    ELSE IF op = "add_watermark" THEN
        Invoke(tool_input, <<"watermark_text">>, "add_watermark",
               [input_path |-> input_path,
                watermark_text |-> Get(tool_input, "watermark_text", None),
                output_path |-> output_path],
               collab, done)
    ELSE Returns(PyStr(<<"[X] Unknown image operation: ", op>>), <<>>)

modify_image(tool_input, collab) ==
    LET m == FirstMissing(tool_input, <<"operation", "input_path">>) IN
    IF m # 0 THEN Raises(KeyError(<<"operation", "input_path">>[m]), <<>>)
    ELSE LET op == tool_input["operation"]
             input_path == tool_input["input_path"]
             output_path == Get(tool_input, "output_path", None)
             done == FString(<<"[OK] Image modified (", op, "): ">>)
    IN
    IF op = "resize" THEN
        Invoke(tool_input, <<"width", "height">>, "resize_image",
               [input_path |-> input_path,
                width |-> Get(tool_input, "width", None),
                height |-> Get(tool_input, "height", None),
                output_path |-> output_path],
               collab, done)
    ELSE IF op = "convert_format" THEN
        Invoke(tool_input, <<"target_format">>, "convert_image_format",
               [input_path |-> input_path,
                target_format |-> Get(tool_input, "target_format", None),
                output_path |-> output_path],
               collab, done)
    ELSE IF op = "add_watermark" THEN
        Invoke(tool_input, <<"watermark_text">>, "add_watermark",
               [input_path |-> input_path,
                watermark_text |-> Get(tool_input, "watermark_text", None),
                output_path |-> output_path],
               collab, done)
    ELSE IF op = "adjust" THEN
        Invoke(tool_input, <<>>, "adjust_image",
               [input_path |-> input_path,
                brightness |-> Get(tool_input, "brightness", 1),
                contrast |-> Get(tool_input, "contrast", 1),
                saturation |-> Get(tool_input, "saturation", 1),
                output_path |-> output_path],
               collab, done)
    ELSE Returns(PyStr(<<"[X] Unknown image operation: ", op>>), <<>>)

create_video_content(tool_input, collab) ==
    IF "platform" \notin DOMAIN tool_input
    THEN Raises(KeyError("platform"), <<>>)
    ELSE LET platform == tool_input["platform"] IN
    IF platform = "instagram_reel" THEN
        Invoke(tool_input, <<"topic">>, "create_instagram_reel_script",
               [topic |-> Get(tool_input, "topic", None),
                duration_seconds |-> Get(tool_input, "duration_seconds", 30),
                niche |-> Get(tool_input, "niche", "general"),
                tone |-> Get(tool_input, "tone", "engaging")],
               collab, JsonDumps)
    ELSE
        Invoke(tool_input, <<"topic">>, "create_youtube_video_package",
               [topic |-> Get(tool_input, "topic", None),
                video_length_minutes |->
                    Get(tool_input, "video_length_minutes", 10),
                channel_niche |-> Get(tool_input, "niche", "general")],
               collab, JsonDumps)

github_operation(tool_input, collab) ==
    IF "action" \notin DOMAIN tool_input
    THEN Raises(KeyError("action"), <<>>)
    ELSE LET action == tool_input["action"] IN
    IF action = "create_repo" THEN
        Invoke(tool_input, <<"repo_name">>, "create_repository",
               [name |-> Get(tool_input, "repo_name", None),
                description |-> Get(tool_input, "description", ""),
                private |-> Get(tool_input, "private", TRUE),
                auto_init |-> Get(tool_input, "auto_init", TRUE),
                gitignore_template |->
                    Get(tool_input, "gitignore_template", None),
                homepage |-> Get(tool_input, "homepage", "")],
               collab, JsonDumps)
    ELSE IF action = "push_files" THEN
        Invoke(tool_input, <<"repo_name", "files">>, "push_files",
               [repo_name |-> Get(tool_input, "repo_name", None),
                files |-> Get(tool_input, "files", None),
                commit_message |->
                    Get(tool_input, "commit_message",
                        "feat: add files via APEX"),
                branch |-> Get(tool_input, "branch", "main"),
                create_branch |-> Get(tool_input, "create_branch", FALSE)],
               collab, JsonDumps)
    ELSE IF action = "enable_pages" THEN
        Invoke(tool_input, <<"repo_name">>, "enable_github_pages",
               [repo_name |-> Get(tool_input, "repo_name", None),
                branch |-> Get(tool_input, "branch", "main"),
                path |-> Get(tool_input, "pages_path", "/")],
               collab, JsonDumps)
    ELSE IF action = "list_repos" THEN
        Invoke(tool_input, <<>>, "list_repositories",
               [limit |-> Get(tool_input, "limit", 20)],
               collab, JsonDumps)
    ELSE IF action = "get_repo" THEN
        Invoke(tool_input, <<"repo_name">>, "get_repository",
               [repo_name |-> Get(tool_input, "repo_name", None)],
               collab, JsonDumps)
    ELSE IF action = "get_user" THEN
        Invoke(tool_input, <<>>, "get_github_user", <<>>, collab, JsonDumps)
    ELSE IF action = "create_release" THEN
        Invoke(tool_input, <<"repo_name", "tag", "release_title">>,
               "create_release",
               [repo_name |-> Get(tool_input, "repo_name", None),
                tag |-> Get(tool_input, "tag", None),
                title |-> Get(tool_input, "release_title", None),
                body |-> Get(tool_input, "release_body", "")],
               collab, JsonDumps)
    ELSE IF action = "read_file" THEN
        Invoke(tool_input, <<"repo_name", "file_path">>,
               "read_file_from_repo",
               [repo_name |-> Get(tool_input, "repo_name", None),
                file_path |-> Get(tool_input, "file_path", None),
                branch |-> Get(tool_input, "branch", "main")],
               collab, Raw)
    ELSE IF action = "create_workflow" THEN
        Invoke(tool_input, <<"repo_name", "workflow_name", "workflow_yaml">>,
               "create_workflow",
               [repo_name |-> Get(tool_input, "repo_name", None),
                workflow_name |-> Get(tool_input, "workflow_name", None),
                workflow_yaml |-> Get(tool_input, "workflow_yaml", None),
                branch |-> Get(tool_input, "branch", "main")],
               collab, FString(<<"[OK] Workflow created. Actions URL: ">>))
    ELSE Returns(PyStr(<<"[X] Unknown github_operation action: ", action>>),
                 <<>>)

shell_execute(tool_input, collab) ==
    IF "action" \notin DOMAIN tool_input
    THEN Raises(KeyError("action"), <<>>)
    ELSE LET action == tool_input["action"] IN
    IF action = "run_command" THEN
        Invoke(tool_input, <<"command">>, "run_command",
               [command |-> Get(tool_input, "command", None),
                working_directory |->
                    Get(tool_input, "working_directory", None),
                timeout_seconds |-> Get(tool_input, "timeout_seconds", 120)],
               collab, JsonDumps)
    ELSE IF action = "write_file" THEN
        Invoke(tool_input, <<"file_path", "content">>, "write_file",
               [file_path |-> Get(tool_input, "file_path", None),
                content |-> Get(tool_input, "content", None),
                working_directory |->
                    Get(tool_input, "working_directory", None)],
               collab, JsonDumps)
    ELSE IF action = "read_file" THEN
        Invoke(tool_input, <<"file_path">>, "shell_read_file",
               [file_path |-> Get(tool_input, "file_path", None),
                working_directory |->
                    Get(tool_input, "working_directory", None)],
               collab, Raw)
    ELSE IF action = "list_directory" THEN
        Invoke(tool_input, <<>>, "list_directory",
               [path |-> Get(tool_input, "path", "."),
                working_directory |->
                    Get(tool_input, "working_directory", None)],
               collab, Raw)
    ELSE IF action = "system_info" THEN
        Invoke(tool_input, <<>>, "system_info", <<>>, collab, JsonDumps)
    ELSE IF action = "git_push" THEN
        Invoke(tool_input, <<"local_dir", "remote_url">>, "git_init_and_push",
               [local_dir |-> Get(tool_input, "local_dir", None),
                remote_url |-> Get(tool_input, "remote_url", None),
                commit_message |->
                    Get(tool_input, "command", "initial commit"),
                branch |-> Get(tool_input, "branch", "main")],
               collab, JsonDumps)
    ELSE IF action = "git_clone" THEN
        Invoke(tool_input, <<"repo_url">>, "git_clone",
               [repo_url |-> Get(tool_input, "repo_url", None),
                target_dir |-> Get(tool_input, "local_dir", None)],
               collab, JsonDumps)
    ELSE Returns(PyStr(<<"[X] Unknown shell_execute action: ", action>>), <<>>)

\* mutant: the chain has no final else, control falls out of it
unknown_tool_falls_through(tool_name) == Returns(PyNone, <<>>)

\* the final else of the chain: no branch has this tool_name
unknown_tool(tool_name) ==
    Returns(PyStr(<<"[X] Unknown tool: ", tool_name>>), <<>>)

\* the body of the try statement: the if/elif chain over tool_name
try_body(tool_name, tool_input, collab) ==
    IF tool_name = "convert_to_pdf" THEN
        Invoke(tool_input, <<"input_path">>, "convert_any_to_pdf",
               [input_path |-> Get(tool_input, "input_path", None),
                output_path |-> Get(tool_input, "output_path", None)],
               collab, FString(<<"[OK] Successfully converted to PDF: ">>))
    ELSE IF tool_name = "modify_document" THEN
        modify_document(tool_input, collab)
    ELSE IF tool_name = "modify_image" THEN
        modify_image(tool_input, collab)
    ELSE IF tool_name = "execute_code" THEN
        Invoke(tool_input, <<"code">>, "execute_python_code",
               [code |-> Get(tool_input, "code", None),
                timeout_seconds |-> Get(tool_input, "timeout_seconds", 30)],
               collab, JsonDumps)
    ELSE IF tool_name = "salesforce_query" THEN
        Invoke(tool_input, <<"soql">>, "sf_client.execute_soql",
               [query |-> Get(tool_input, "soql", None)],
               collab, JsonDumps)
    ELSE IF tool_name = "create_video_content" THEN
        create_video_content(tool_input, collab)
    ELSE IF tool_name = "web_search" THEN
        Invoke(tool_input, <<"query">>, "web_search",
               [query |-> Get(tool_input, "query", None),
                num_results |-> Get(tool_input, "num_results", 10),
                search_depth |-> Get(tool_input, "search_depth", "advanced")],
               collab, Raw)
    ELSE IF tool_name = "forum_search" THEN
        Invoke(tool_input, <<"query">>, "forum_search",
               [query |-> Get(tool_input, "query", None),
                num_results |-> Get(tool_input, "num_results", 10)],
               collab, Raw)
    ELSE IF tool_name = "deep_research" THEN
        Invoke(tool_input, <<"topic">>, "deep_research",
               [topic |-> Get(tool_input, "topic", None)],
               collab, Raw)
    ELSE IF tool_name = "fetch_url" THEN
        Invoke(tool_input, <<"url">>, "fetch_url",
               [url |-> Get(tool_input, "url", None),
                max_chars |-> Get(tool_input, "max_chars", 6000)],
               collab, Raw)
    ELSE IF tool_name = "github_operation" THEN
        github_operation(tool_input, collab)
    ELSE IF tool_name = "shell_execute" THEN
        shell_execute(tool_input, collab)
    ELSE unknown_tool(tool_name)

\* mutant: the handler returns the marker without the exception's message
except_without_message(outcome) ==
    IF outcome.kind = "raise"
    THEN Returns(PyStr(<<"[X] Tool error">>), outcome.calls)
    ELSE outcome

\* mutant: the handler is "except KeyError", any other exception propagates
except_KeyError(outcome) ==
    IF outcome.kind = "raise" /\ outcome.value.type = "KeyError"
    THEN Returns(PyStr(<<"[X] Tool error: ">> \o outcome.value.msg),
                 outcome.calls)
    ELSE outcome

\* except Exception as e: return f"[X] Tool error: {str(e)}"
except_Exception(outcome) ==
    IF outcome.kind = "raise"
    THEN Returns(PyStr(<<"[X] Tool error: ">> \o outcome.value.msg),
                 outcome.calls)
    ELSE outcome

\* mutant: the name is looked up before the try, and the lookup of a name
\* that is not registered raises
execute_tool_registered_only(tool_name, tool_input, collab) ==
    IF tool_name \in ToolNames
    THEN except_Exception(try_body(tool_name, tool_input, collab))
    ELSE Raises(KeyError(tool_name), <<>>)

\* execute_tool: the try statement

execute_tool(tool_name, tool_input, collab) ==
    except_Exception(try_body(tool_name, tool_input, collab))

(***************************************************************************)
(* The model API as the loop sees it: a response is a stop_reason and an   *)
(* ordered list of content blocks; a call may also raise.                  *)
(***************************************************************************)
NoInput == <<>>

TextBlock(text) ==
    [name |-> None, type |-> "text", text |-> text, id |-> None,
     input |-> NoInput]
ToolUseBlock(id, name, input) ==
    [name |-> name, type |-> "tool_use", text |-> <<>>, id |-> id,
     input |-> input]

\* the tool calls the model asks for in the conversation specification
ChatCalls ==
    {[name |-> "convert_to_pdf", input |-> [input_path |-> "report.docx"]],
     [name |-> "no_such_tool", input |-> NoInput]}

\* what the collaborator of a requested call does, in the conversation
\* specification
ChatOutcomes ==
    {c \in CollabOutcomes :
        /\ c.kind = "raise" => c.exc.type = "FileNotFoundError"
        /\ c.kind = "return" => c.proc = "exit 0"}

BlockTemplates ==
    {TextBlock(<<"4">>)} \cup {ToolUseBlock(None, c.name, c.input) : c \in ChatCalls}

\* the content of a response: with stop_reason tool_use, text and tool_use
\* blocks in any order; with any other stop_reason, text blocks
Contents(stop_reason) ==
    LET blocks == IF stop_reason = "tool_use" THEN BlockTemplates
                  ELSE {TextBlock(<<"4">>)}
    IN UNION {[1..n -> blocks] : n \in 0..MaxBlocks}

\* the API gives every tool_use block an id of its own
WithIds(content, turn) ==
    [i \in 1..Len(content) |->
        IF content[i].type = "tool_use"
        THEN [content[i] EXCEPT !.id = <<"toolu", turn, i>>]
        ELSE content[i]]

StopReasons == {"tool_use", "end_turn", "max_tokens"}

APIError == [type |-> "APIConnectionError", msg |-> <<"Connection error.">>]

NoResponse == [content |-> <<>>, stop_reason |-> None]

(***************************************************************************)
(* AIAgent.  What the caller saw last is kept in result: the operation     *)
(* (op), how it ended (kind) and the value returned or exception raised.   *)
(* hist0 is conversation_history as it was when the current (or last) chat *)
(* call was entered and calls the number of model invocations that call    *)
(* has made; reset_conversation clears both.  The locals of chat           *)
(* (response, idx, tool_results) are cleared where the code leaves their   *)
(* scope or rebinds them.                                                  *)
(***************************************************************************)
UserMessages == {<<"Convert report.docx to PDF">>}
FileRefs == {None, "uploads/report.docx"}

\* chat(user_message) with uploaded_file_path left at its default: the calls
\* of the conversation specification
ChatFileRefs == {None}

Message(role, content) == [role |-> role, content |-> content]

\* lines 648-650: the user text, annotated when a file reference is given
\* mutant: the test is "is not None", so an empty reference is annotated
user_content_if_not_None(user_message, uploaded_file_path) ==
    IF uploaded_file_path # None
    THEN user_message
         \o <<"\n\n[Uploaded file available at: ", uploaded_file_path, "]">>
    ELSE user_message

user_content(user_message, uploaded_file_path) ==
    IF uploaded_file_path # None /\ uploaded_file_path # ""
    THEN user_message
         \o <<"\n\n[Uploaded file available at: ", uploaded_file_path, "]">>
    ELSE user_message

\* mutant: the result is inserted at the front of tool_results
insert_result(results, block, value) ==
    <<[type |-> "tool_result", tool_use_id |-> block.id,
       content |-> value]>> \o results

\* tool_results.append({...}) for one tool_use block
append_result(results, block, value) ==
    Append(results,
           [type |-> "tool_result", tool_use_id |-> block.id,
            content |-> value])

\* mutant: an empty tool_results list is not appended
append_nonempty_tool_results(history, results) ==
    IF results = <<>> THEN history
    ELSE Append(history, Message("user", PyList(results)))

\* conversation_history.append({"role": "user", "content": tool_results})
append_tool_results(history, results) ==
    Append(history, Message("user", PyList(results)))

\* "".join(block.text for block in response.content if hasattr(block, "text"))
\* mutant: only the first text block is returned
final_text_first(content) ==
    LET texts == SelectSeq(content, LAMBDA b : b.type = "text")
    IN IF texts = <<>> THEN <<>> ELSE texts[1].text

\* "".join(block.text for block in response.content if hasattr(block, "text"))

final_text(content) ==
    Join([i \in 1..Len(content) |->
            IF content[i].type = "text" THEN content[i].text ELSE <<>>])

\* mutant: the oldest message is dropped when the answer is appended
append_final_sliding(history, final_response) ==
    Append(Tail(history), Message("assistant", PyStr(final_response)))

\* conversation_history.append({"role": "assistant", "content": final_response})
append_final(history, final_response) ==
    Append(history, Message("assistant", PyStr(final_response)))

UnexpectedError == <<"An unexpected error occurred. Please try again.">>

\* last_exec is the call of execute_tool made last in the running tool loop:
\* its arguments, what the collaborator did and its outcome
NotRun == [calls |-> <<>>, value |-> PyNone, kind |-> "not run"]
NoExec == [name |-> None,
           collab |-> [proc |-> "exit 0", kind |-> "return", exc |-> None],
           input |-> NoInput, out |-> NotRun]

\* request is what the last model invocation of the running chat call was
\* given: messages, system and tools
MASTER_SYSTEM_PROMPT == <<"You are APEX">>

NoRequest == [messages |-> <<>>, system |-> <<>>, tools |-> <<>>]

\* mutant: only the last message is sent
create_request_window(history) ==
    [messages |-> IF history = <<>> THEN <<>> ELSE <<history[Len(history)]>>,
     system |-> MASTER_SYSTEM_PROMPT, tools |-> TOOLS]

\* client.messages.create(model=..., max_tokens=..., system=..., tools=...,
\* messages=self.conversation_history)
create_request(history) ==
    [messages |-> history, system |-> MASTER_SYSTEM_PROMPT, tools |-> TOOLS]

\* mutant: the loop gives up after two model invocations
while_below_cap == calls < 2

\* while True:
while_True == TRUE

\* mutant: the for loop is left after the first block
for_first_block_only == idx > 1 \/ idx > Len(response.content)

\* for block in response.content: the loop is over
for_exhausted == idx > Len(response.content)

InitTools ==
    /\ git = None
    /\ pages = None
    /\ ui = None
    /\ routed = None

InitOthers ==
    /\ dumped = None
    /\ heap = <<>>
    /\ sess = <<>>
    /\ InitTools

Init ==
    /\ request = NoRequest
    /\ InitOthers
    /\ conversation_history = <<>>
    /\ pc = "idle"
    /\ response = NoResponse
    /\ idx = 0
    /\ tool_results = <<>>
    /\ result = [op |-> "init", kind |-> "return", value |-> PyNone]
    /\ hist0 = <<>>
    /\ calls = 0
    /\ last_exec = NoExec

\* chat, up to the first model invocation
Chat(user_message, uploaded_file_path) ==
    /\ pc = "idle"
    /\ Len(conversation_history) + 2 <= MaxHistory
    /\ conversation_history' =
         Append(conversation_history,
                Message("user",
                        PyStr(user_content(user_message, uploaded_file_path))))
    /\ hist0' = conversation_history
    /\ calls' = 0
    /\ pc' = "model_call"
    /\ response' = NoResponse
    /\ request' = NoRequest
    /\ UNCHANGED <<idx, tool_results, result, last_exec, others>>

\* mutant: on an unexpected stop_reason the loop asks the model again
ModelReturns_retrying(stop_reason, content) ==
    /\ pc = "model_call"
    /\ while_True
    /\ request' = create_request(conversation_history)
    /\ stop_reason = "tool_use" => Len(conversation_history) + 3 <= MaxHistory
    /\ calls' = calls + 1
    /\ response' = [stop_reason |-> stop_reason,
                    content |-> WithIds(content, Len(conversation_history) + 1)]
    /\ IF stop_reason = "tool_use" THEN
          /\ conversation_history' =
               Append(conversation_history,
                      Message("assistant",
                              [t |-> "blocks", v |-> response'.content]))
          /\ tool_results' = <<>>
          /\ idx' = 1
          /\ pc' = "tool_loop"
          /\ UNCHANGED result
       ELSE IF stop_reason = "end_turn" THEN
          /\ conversation_history' =
               append_final(conversation_history, final_text(content))
          /\ result' = [op |-> "chat", kind |-> "return",
                        value |-> PyStr(final_text(content))]
          /\ pc' = "idle"
          /\ UNCHANGED <<tool_results, idx>>
       ELSE
          /\ pc' = "model_call"
          /\ UNCHANGED <<conversation_history, tool_results, idx, result>>
    /\ UNCHANGED <<hist0, last_exec, others>>

\* client.messages.create(...) returns; the branch on stop_reason
ModelReturns(stop_reason, content) ==
    /\ pc = "model_call"
    /\ while_True
    /\ request' = create_request(conversation_history)
    /\ stop_reason = "tool_use" => Len(conversation_history) + 3 <= MaxHistory
    /\ calls' = calls + 1
    /\ response' = [stop_reason |-> stop_reason,
                    content |-> WithIds(content, Len(conversation_history) + 1)]
    /\ IF stop_reason = "tool_use" THEN
          /\ conversation_history' =
               Append(conversation_history,
                      Message("assistant",
                              [t |-> "blocks", v |-> response'.content]))
          /\ tool_results' = <<>>
          /\ idx' = 1
          /\ pc' = "tool_loop"
          /\ UNCHANGED result
       ELSE IF stop_reason = "end_turn" THEN
          /\ conversation_history' =
               append_final(conversation_history, final_text(content))
          /\ result' = [op |-> "chat", kind |-> "return",
                        value |-> PyStr(final_text(content))]
          /\ pc' = "idle"
          /\ UNCHANGED <<tool_results, idx>>
       ELSE
          /\ result' = [op |-> "chat", kind |-> "return",
                        value |-> PyStr(UnexpectedError)]
          /\ pc' = "idle"
          /\ UNCHANGED <<conversation_history, tool_results, idx>>
    /\ UNCHANGED <<hist0, last_exec, others>>

\* client.messages.create(...) raises: nothing in chat catches it
ModelRaises ==
    /\ pc = "model_call"
    /\ while_True
    /\ request' = create_request(conversation_history)
    /\ calls' = calls + 1
    /\ result' = [op |-> "chat", kind |-> "raise", value |-> APIError]
    /\ pc' = "idle"
    /\ UNCHANGED <<conversation_history, response, idx, tool_results, hist0,
                   last_exec, others>>

\* one iteration of "for block in response.content"
ToolStep(collab) ==
    /\ pc = "tool_loop"
    /\ ~for_exhausted
    /\ LET block == response.content[idx] IN
       IF block.type = "tool_use" THEN
          LET out == execute_tool(block.name, block.input, collab) IN
          /\ last_exec' = [name |-> block.name, input |-> block.input,
                           collab |-> collab, out |-> out]
          /\ IF out.kind = "raise" THEN
                /\ result' = [op |-> "chat", kind |-> "raise",
                              value |-> out.value]
                /\ pc' = "idle"
                /\ UNCHANGED <<tool_results, idx>>
             ELSE
                /\ tool_results' = append_result(tool_results, block, out.value)
                /\ idx' = idx + 1
                /\ UNCHANGED <<pc, result>>
       ELSE
          /\ idx' = idx + 1
          /\ UNCHANGED <<tool_results, pc, result, last_exec>>
    /\ UNCHANGED <<conversation_history, response, hist0, calls, request,
                   others>>

\* the for loop is over: the results go back as one user message
ToolsDone ==
    /\ pc = "tool_loop"
    /\ for_exhausted
    /\ conversation_history' =
         append_tool_results(conversation_history, tool_results)
    /\ pc' = "model_call"
    /\ tool_results' = <<>>
    /\ idx' = 0
    /\ last_exec' = NoExec
    /\ UNCHANGED <<response, result, hist0, calls, request, others>>

\* mutant: the first message survives the reset
reset_keeps_first ==
    /\ pc = "idle"
    /\ conversation_history' =
         IF conversation_history = <<>> THEN <<>>
         ELSE <<conversation_history[1]>>
    /\ result' = [op |-> "reset", kind |-> "return", value |-> PyNone]
    /\ hist0' = <<>>
    /\ calls' = 0
    /\ response' = NoResponse
    /\ request' = NoRequest
    /\ UNCHANGED <<pc, idx, tool_results, last_exec, others>>

reset_conversation ==
    /\ pc = "idle"
    /\ conversation_history' = <<>>
    /\ result' = [op |-> "reset", kind |-> "return", value |-> PyNone]
    /\ hist0' = <<>>
    /\ calls' = 0
    /\ response' = NoResponse
    /\ request' = NoRequest
    /\ UNCHANGED <<pc, idx, tool_results, last_exec, others>>

Next ==
    \/ \E m \in UserMessages, f \in ChatFileRefs : Chat(m, f)
    \/ \E s \in StopReasons : \E c \in Contents(s) : ModelReturns(s, c)
    \/ ModelRaises
    \/ \E collab \in ChatOutcomes : ToolStep(collab)
    \/ ToolsDone
    \/ reset_conversation

Spec == Init /\ [][Next]_vars

(***************************************************************************)
(* The dispatcher on its own: execute_tool applied to every tool name and  *)
(* argument mapping of the bounded input space.                            *)
(***************************************************************************)
UnregisteredNames == {"no_such_tool", "", "convert_pdf"}

IntArgs ==
    [timeout_seconds |-> 5, num_results |-> 3, max_chars |-> 100,
     width |-> 640, height |-> 480, limit |-> 5, duration_seconds |-> 15,
     video_length_minutes |-> 5, brightness |-> 2, contrast |-> 2,
     saturation |-> 2]
BoolArgs == [private |-> FALSE, auto_init |-> FALSE, create_branch |-> TRUE]

\* the value an argument mapping gives the key k
ArgValue(k) ==
    IF k \in DOMAIN IntArgs THEN IntArgs[k]
    ELSE IF k \in DOMAIN BoolArgs THEN BoolArgs[k]
    ELSE IF k = "search_depth" THEN "basic"
    ELSE IF k = "branch" THEN "gh-pages"
    ELSE k

Properties(tool_name) ==
    IF tool_name \in ToolNames THEN Schema(tool_name).properties
    ELSE {"input_path", "action"}

Selector(tool_name) ==
    IF tool_name \in ToolNames THEN Schema(tool_name).sel ELSE None

SelectorValues(tool_name) ==
    IF tool_name \in ToolNames /\ Schema(tool_name).sel # None
    THEN Schema(tool_name).enum \cup {"bogus"}
    ELSE {None}

ToolInputs(tool_name) ==
    LET keys == Properties(tool_name)
        doms == {D \in SUBSET keys :
                    \/ Cardinality(D) <= MaxDelta
                    \/ Cardinality(keys \ D) <= MaxDelta}
    IN {[k \in D |-> IF k = Selector(tool_name) THEN s ELSE ArgValue(k)] :
            D \in doms, s \in SelectorValues(tool_name)}

DispInit ==
    /\ request = NoRequest
    /\ InitOthers
    /\ conversation_history = <<>>
    /\ pc = "dispatcher"
    /\ response = NoResponse
    /\ idx = 0
    /\ tool_results = <<>>
    /\ result = [op |-> "init", kind |-> "return", value |-> PyNone]
    /\ hist0 = <<>>
    /\ calls = 0
    /\ \E tool_name \in ToolNames \cup UnregisteredNames :
         \E tool_input \in ToolInputs(tool_name), collab \in CollabOutcomes :
            last_exec = [name |-> tool_name, input |-> tool_input,
                         collab |-> collab, out |-> NotRun]

Dispatch ==
    /\ pc = "dispatcher"
    /\ last_exec.out = NotRun
    /\ last_exec' =
         [last_exec EXCEPT
            !.out = execute_tool(last_exec.name, last_exec.input,
                                 last_exec.collab)]
    /\ UNCHANGED <<conversation_history, pc, response, idx, tool_results,
                   result, hist0, calls, request, others>>

DispNext == Dispatch

DispSpec == DispInit /\ [][DispNext]_vars

(***************************************************************************)
(* The end_turn branch on its own: chat has appended the user message and  *)
(* the model answers end_turn with any content of the bounded block space, *)
(* blocks that carry no text included.                                     *)
(***************************************************************************)
\* a block of a type that has no text attribute (ThinkingBlock)
ThinkingBlock ==
    [name |-> None, type |-> "thinking", text |-> <<>>, id |-> None,
     input |-> NoInput]

FinalTemplates ==
    {TextBlock(<<"4">>), TextBlock(<<"2">>), TextBlock(<<>>), ThinkingBlock,
     ToolUseBlock(None, "convert_to_pdf", [input_path |-> "report.docx"])}

FinalContents == UNION {[1..n -> FinalTemplates] : n \in 0..(MaxBlocks + 1)}

FinalInit ==
    /\ request = NoRequest
    /\ InitOthers
    /\ \E m \in UserMessages, f \in FileRefs :
          conversation_history = <<Message("user", PyStr(user_content(m, f)))>>
    /\ pc = "model_call"
    /\ response = NoResponse
    /\ idx = 0
    /\ tool_results = <<>>
    /\ result = [op |-> "init", kind |-> "return", value |-> PyNone]
    /\ hist0 = <<>>
    /\ calls = 0
    /\ last_exec = NoExec

FinalNext == \E c \in FinalContents : ModelReturns("end_turn", c)

FinalSpec == FinalInit /\ [][FinalNext]_vars

(***************************************************************************)
(* Several sessions in one process.  main.py keeps one AIAgent per         *)
(* session (st.session_state.agent), built on the session's first run;     *)
(* every session runs its script in a thread of its own, so the steps of   *)
(* different sessions interleave.  heap holds the list objects, sess the   *)
(* agent of every session: the list its conversation_history is bound to   *)
(* (0 before the agent is built), where its chat call is, and the messages *)
(* it last sent to the model.  Texts name the session they belong to.      *)
(***************************************************************************)
Sessions == {"s1", "s2"}

MaxSessHistory == 4

Refs == 1..(Cardinality(Sessions) + 1)

NoList == [items |-> <<>>, live |-> FALSE]
NoAgent == [pc |-> "idle", agent |-> 0, sent |-> <<>>]

\* mutant: the list is a class attribute, one object for every instance
class_level_list(h) == 1

\* []: a list object that nothing else refers to
new_list(h) == Min({r \in Refs : ~h[r].live})

\* the conversation_history of session s's agent
Hist(s) == IF sess[s].agent = 0 THEN <<>> ELSE heap[sess[s].agent].items

\* the list objects that no agent refers to any more are reclaimed
Collect(h, ss) ==
    [r \in Refs |-> IF \E s \in Sessions : ss[s].agent = r THEN h[r]
                    ELSE NoList]

SessInit ==
    /\ request = NoRequest
    /\ dumped = None
    /\ conversation_history = <<>>
    /\ pc = "sessions"
    /\ response = NoResponse
    /\ idx = 0
    /\ tool_results = <<>>
    /\ result = [op |-> "init", kind |-> "return", value |-> PyNone]
    /\ hist0 = <<>>
    /\ calls = 0
    /\ last_exec = NoExec
    /\ heap = [r \in Refs |-> NoList]
    /\ sess = [s \in Sessions |-> NoAgent]
    /\ InitTools

SessUnchanged ==
    UNCHANGED <<conversation_history, pc, response, idx, tool_results, result,
                hist0, calls, last_exec, request, dumped, tools>>

\* st.session_state.agent = AIAgent(): self.conversation_history = []
AIAgent_init(s) ==
    /\ sess[s].agent = 0
    /\ LET r == new_list(heap) IN
          /\ heap' = [heap EXCEPT ![r] = [live |-> TRUE, items |-> <<>>]]
          /\ sess' = [sess EXCEPT ![s].agent = r]
    /\ SessUnchanged

\* agent.chat(user_input), up to the first model invocation
SessChat(s) ==
    /\ sess[s].agent # 0
    /\ sess[s].pc = "idle"
    /\ Len(Hist(s)) + 2 <= MaxSessHistory
    /\ heap' = [heap EXCEPT ![sess[s].agent].items =
                   Append(@, Message("user", PyStr(<<"question of ", s>>)))]
    /\ sess' = [sess EXCEPT ![s].pc = "model_call", ![s].sent = <<>>]
    /\ SessUnchanged

\* one pass of the while loop: the model is invoked with the agent's list;
\* on tool_use the tool calls and their results are appended and the loop
\* goes round, on end_turn the answer is appended and chat returns, on any
\* other stop_reason, or when the invocation raises, chat exits
SessModel(s, stop_reason) ==
    /\ sess[s].agent # 0
    /\ sess[s].pc = "model_call"
    /\ stop_reason = "tool_use" => Len(Hist(s)) + 3 <= MaxSessHistory
    /\ LET sent == create_request(Hist(s)).messages
           call == ToolUseBlock(<<"toolu", s, Len(Hist(s))>>, "web_search",
                                [query |-> s])
       IN /\ heap' = [heap EXCEPT ![sess[s].agent].items =
                 IF stop_reason = "tool_use"
                 THEN append_tool_results(
                        Append(@, Message("assistant",
                                          [t |-> "blocks", v |-> <<call>>])),
                        append_result(<<>>, call,
                                      PyStr(<<"results for ", s>>)))
                 ELSE IF stop_reason = "end_turn"
                 THEN append_final(@, <<"answer to ", s>>)
                 ELSE @]
          /\ sess' = [sess EXCEPT
                        ![s].sent = sent,
                        ![s].pc = IF stop_reason = "tool_use"
                                  THEN "model_call" ELSE "idle"]
    /\ SessUnchanged

\* agent.reset_conversation(): self.conversation_history = []
SessReset(s) ==
    /\ sess[s].agent # 0
    /\ sess[s].pc = "idle"
    /\ LET r == new_list(heap)
           ss == [sess EXCEPT ![s].agent = r, ![s].sent = <<>>]
       IN /\ sess' = ss
          /\ heap' = Collect([heap EXCEPT ![r] = [live |-> TRUE,
                                                  items |-> <<>>]], ss)
    /\ SessUnchanged

SessStep(s) ==
    \/ AIAgent_init(s)
    \/ SessChat(s)
    \/ \E stop_reason \in StopReasons \cup {"raise"} : SessModel(s, stop_reason)
    \/ SessReset(s)

SessNext == \E s \in Sessions : SessStep(s)

SessSpec == SessInit /\ [][SessNext]_vars

(***************************************************************************)
(* The encoder on its own: two dicts a and b, each a choice of keys in an  *)
(* order of insertion with a value per key, are encoded the way the        *)
(* dispatcher encodes a structured result; a is encoded twice.             *)
(***************************************************************************)
MaxKeys == 2

\* the most chat calls made from the Streamlit page
MaxTurns == 3

DictKeys == {"success", "stdout", "return_code"}
EncodedValues == {"true", "0"}

\* the dicts of up to MaxKeys items: every order of insertion of every
\* choice of keys
Dicts ==
    UNION {{d \in [1..n -> DictKeys \X EncodedValues] :
                \A i, j \in 1..n : i # j => d[i][1] # d[j][1]} :
           n \in 0..MaxKeys}

NotEncoded == <<>>

JsonInit ==
    /\ request = NoRequest
    /\ InitTools
    /\ heap = <<>>
    /\ sess = <<>>
    /\ conversation_history = <<>>
    /\ pc = "encoder"
    /\ response = NoResponse
    /\ idx = 0
    /\ tool_results = <<>>
    /\ result = [op |-> "init", kind |-> "return", value |-> PyNone]
    /\ hist0 = <<>>
    /\ calls = 0
    /\ last_exec = NoExec
    /\ \E a \in Dicts, b \in Dicts :
          dumped = [a |-> a, b |-> b, out |-> NotEncoded]

\* return json.dumps(result, indent=2): for a, for a again, and for b
Encode ==
    /\ pc = "encoder"
    /\ dumped.out = NotEncoded
    /\ dumped' = [dumped EXCEPT
                    !.out = <<Wrap(JsonDumps, PyDict(dumped.a)).v,
                              Wrap(JsonDumps, PyDict(dumped.a)).v,
                              Wrap(JsonDumps, PyDict(dumped.b)).v>>]
    /\ UNCHANGED <<conversation_history, pc, response, idx, tool_results,
                   result, hist0, calls, last_exec, request, heap, sess,
                   tools>>

JsonNext == Encode

JsonSpec == JsonInit /\ [][JsonNext]_vars

(***************************************************************************)
(* Turns with and without an uploaded file: chat is called with every      *)
(* kind of file reference (None, the empty string, a path) and the model   *)
(* answers without tools, stops unexpectedly, or fails.                    *)
(***************************************************************************)
TurnFileRefs == FileRefs \cup {""}

TurnNext ==
    \/ \E m \in UserMessages, f \in TurnFileRefs : Chat(m, f)
    \/ \E s \in {"end_turn", "max_tokens"} :
          \E c \in Contents(s) : ModelReturns(s, c)
    \/ ModelRaises
    \/ reset_conversation

TurnSpec == Init /\ [][TurnNext]_vars

(***************************************************************************)
(* Chat calls in which every model call and every tool call returns: the   *)
(* model call does not raise, a response is given to every invocation, the *)
(* tool loop goes on, and a model that is asked again and again does not   *)
(* answer tool_use for ever.                                               *)
(***************************************************************************)
ModelAnswers(stop_reasons) ==
    \E s \in stop_reasons : \E c \in Contents(s) : ModelReturns(s, c)

\* every tool call returns: the collaborator comes back with a value
LiveOutcomes == {c \in ChatOutcomes : c.kind = "return"}

ToolLoopStep == (\E collab \in LiveOutcomes : ToolStep(collab)) \/ ToolsDone

LiveNext ==
    \/ \E m \in UserMessages, f \in ChatFileRefs : Chat(m, f)
    \/ ModelAnswers(StopReasons)
    \/ ToolLoopStep

LiveSpec ==
    /\ Init
    /\ [][LiveNext]_vars
    /\ WF_vars(ModelAnswers(StopReasons))
    /\ WF_vars(ToolLoopStep)
    /\ SF_vars(ModelAnswers(StopReasons \ {"tool_use"}))

(***************************************************************************)
(* git_init_and_push on its own: the six git commands are run one after    *)
(* the other, each in a child process that succeeds, fails or times out    *)
(* and writes what git writes in those cases.                              *)
(***************************************************************************)
\* how the child process of a git command ends, and the output it leaves:
\* success; "fatal: ... already exists."; "nothing to commit" of a commit
\* on a clean tree (exit 1, on stdout); another failure; a timeout
GitProcesses ==
    {[success |-> TRUE, stdout |-> <<>>, stderr |-> <<>>, return_code |-> 0],
     [success |-> FALSE, stdout |-> <<>>,
      stderr |-> <<"fatal: remote origin ", "already exists", ".">>,
      return_code |-> 3],
     [success |-> FALSE,
      stdout |-> <<"On branch main\n", "nothing to commit",
                   ", working tree clean">>,
      stderr |-> <<>>, return_code |-> 1],
     [success |-> FALSE, stdout |-> <<>>,
      stderr |-> <<"fatal: ", "Authentication failed">>, return_code |-> 128],
     [success |-> FALSE, stdout |-> <<>>,
      stderr |-> <<"Timed out after 120 seconds">>, return_code |-> -1]}

\* what the k-th command can end with: "already exists" comes from
\* checkout -b and remote add, "nothing to commit" from commit
GitProcessesOf(k) ==
    {proc \in GitProcesses :
        /\ Contains(proc.stderr, "already exists") => k \in {2, 5}
        /\ Contains(proc.stdout, "nothing to commit") => k = 4}

GitBranches == {"main", "gh-pages"}
GitMessages == {"initial commit", "update site"}

\* run_command(cmd, working_directory=local_dir): the dict it returns
\* (elapsed_seconds left out)
run_command_dict(command, working_directory, proc) ==
    [success |-> proc.success, stdout |-> proc.stdout, stderr |-> proc.stderr,
     return_code |-> proc.return_code, command |-> command,
     working_directory |-> working_directory]

\* sub in s, for a string s kept as a sequence of fragments
In(sub, s) == Contains(s, sub)

\* commands = [...]
commands(remote_url, commit_message, branch) ==
    <<"git init",
      "git checkout -b " \o branch,
      "git add .",
      "git commit -m \"" \o commit_message \o "\"",
      "git remote add origin " \o remote_url,
      "git push -u origin " \o branch>>

\* mutant: the loop is left after any failed command
break_on_any_failure(r) == ~r.success

\* if not r["success"] and "already exists" not in r["stderr"]: break
break_loop(r) == ~r.success /\ ~In("already exists", r.stderr)

\* final_success = all(r["success"] or "already exists" in r.get("stderr", "")
\*                     or "nothing to commit" in r.get("stdout", "")
\*                     for r in results)
final_success(results) ==
    \A k \in 1..Len(results) :
        \/ results[k].success
        \/ In("already exists", results[k].stderr)
        \/ In("nothing to commit", results[k].stdout)

NoGit ==
    [pc |-> "idle", local_dir |-> None, remote_url |-> None,
     commit_message |-> None, branch |-> None, commands |-> <<>>,
     results |-> <<>>, ran |-> <<>>, ret |-> None]

GitInit ==
    /\ request = NoRequest
    /\ dumped = None
    /\ heap = <<>>
    /\ sess = <<>>
    /\ conversation_history = <<>>
    /\ pc = "git"
    /\ response = NoResponse
    /\ idx = 0
    /\ tool_results = <<>>
    /\ result = [op |-> "init", kind |-> "return", value |-> PyNone]
    /\ hist0 = <<>>
    /\ calls = 0
    /\ last_exec = NoExec
    /\ git = NoGit
    /\ pages = None
    /\ ui = None
    /\ routed = None

GitUnchanged ==
    UNCHANGED <<conversation_history, pc, response, idx, tool_results, result,
                hist0, calls, last_exec, request, dumped, heap, sess, pages,
                ui, routed>>

\* git_init_and_push(local_dir, remote_url, commit_message, branch), up to
\* the for loop
git_init_and_push(commit_message, branch) ==
    /\ git.pc \in {"idle", "done"}
    /\ git' = [pc |-> "for", local_dir |-> "site",
               remote_url |-> "https://github.com/u/site.git",
               commit_message |-> commit_message, branch |-> branch,
               commands |-> commands("https://github.com/u/site.git",
                                     commit_message, branch),
               results |-> <<>>, ran |-> <<>>, ret |-> None]
    /\ GitUnchanged

\* one pass of `for cmd in commands`: the command is run in its child
\* process (ran is the list of the commands the processes were started
\* for), its result is appended, and the loop is left or goes on
git_for(proc) ==
    /\ git.pc = "for"
    /\ proc \in GitProcessesOf(Len(git.results) + 1)
    /\ LET cmd == git.commands[Len(git.results) + 1]
           r == run_command_dict(cmd, git.local_dir, proc)
           results == Append(git.results, [cmd |-> cmd] @@ r)
       IN git' = [git EXCEPT
                    !.ran = Append(@, cmd),
                    !.results = results,
                    !.pc = IF break_loop(r) \/ Len(results) = Len(git.commands)
                           THEN "return" ELSE "for"]
    /\ GitUnchanged

\* final_success = ...; return {...}
git_return ==
    /\ git.pc = "return"
    /\ git' = [git EXCEPT
                 !.pc = "done",
                 !.ret = [success |-> final_success(git.results),
                          steps |-> git.results,
                          local_dir |-> git.local_dir,
                          remote |-> git.remote_url]]
    /\ GitUnchanged

GitNext ==
    \/ \E m \in GitMessages, b \in GitBranches : git_init_and_push(m, b)
    \/ \E proc \in GitProcesses : git_for(proc)
    \/ git_return

GitSpec == GitInit /\ [][GitNext]_vars

(***************************************************************************)
(* enable_github_pages on its own: a repository that is private or public, *)
(* and a GitHub API that accepts or rejects each request.                  *)
(***************************************************************************)
\* answers of POST /repos/{full_name}/pages: status code and JSON body
PagesPosts ==
    {[status_code |-> 201, html_url |-> "https://u.github.io/site/",
      message |-> None],
     [status_code |-> 201, html_url |-> None, message |-> None],
     [status_code |-> 409, html_url |-> None,
      message |-> <<"GitHub Pages is already enabled.">>],
     [status_code |-> 422, html_url |-> None,
      message |-> <<"Pages is not available for ", "Private",
                    " repositories on this plan">>],
     [status_code |-> 422, html_url |-> None,
      message |-> <<"The branch must exist before Pages can be built">>]}

PagesBranches == {"main", "gh-pages"}
PagesPaths == {"/", "/docs"}

\* str.lower(), on the fragments and characters that messages are made of
LowerCase ==
    [Private |-> "private", A |-> "a", B |-> "b", D |-> "d", E |-> "e",
     F |-> "f", G |-> "g", P |-> "p", T |-> "t", U |-> "u", Y |-> "y"]

lower(s) ==
    [k \in 1..Len(s) |->
        IF s[k] \in DOMAIN LowerCase THEN LowerCase[s[k]] ELSE s[k]]

\* data.get("html_url", f"https://{user.login}.github.io/{repo.name}/")
site_url(resp) ==
    IF resp.html_url # None THEN resp.html_url ELSE "https://u.github.io/site/"

\* "private" in error_msg.lower() or repo.private
private_suspected(error_msg, repo_private) ==
    In("private", lower(error_msg)) \/ repo_private

PagesReturn(url, status) ==
    [kind |-> "return",
     value |-> [pages_url |-> url, status |-> status,
                branch |-> pages.branch, path |-> pages.path]]

PagesRaise(type, msg) == [kind |-> "raise", value |-> [type |-> type, msg |-> msg]]

PagesInit ==
    /\ request = NoRequest
    /\ dumped = None
    /\ heap = <<>>
    /\ sess = <<>>
    /\ conversation_history = <<>>
    /\ pc = "pages"
    /\ response = NoResponse
    /\ idx = 0
    /\ tool_results = <<>>
    /\ result = [op |-> "init", kind |-> "return", value |-> PyNone]
    /\ hist0 = <<>>
    /\ calls = 0
    /\ last_exec = NoExec
    /\ git = None
    /\ ui = None
    /\ routed = None
    /\ \E v \in {"private", "public"} :
          pages = [pc |-> "idle", visibility |-> v, before |-> v,
                   repo_private |-> v = "private", branch |-> None,
                   path |-> None, resp |-> None, log |-> <<>>, ret |-> None]

PagesUnchanged ==
    UNCHANGED <<conversation_history, pc, response, idx, tool_results, result,
                hist0, calls, last_exec, request, dumped, heap, sess, git, ui,
                routed>>

\* enable_github_pages(repo_name, branch, path), up to the first POST:
\* get_repo reads the repository, its private attribute included
enable_github_pages(branch, path) ==
    /\ pages.pc \in {"idle", "done"}
    /\ pages' = [pc |-> "post", visibility |-> pages.visibility,
                 before |-> pages.visibility,
                 repo_private |-> pages.visibility = "private",
                 branch |-> branch, path |-> path, resp |-> None,
                 log |-> <<>>, ret |-> None]
    /\ PagesUnchanged

\* resp = requests.post(...) and the tests on resp.status_code
pages_post(resp) ==
    /\ pages.pc = "post"
    /\ pages' = [pages EXCEPT
          !.resp = resp,
          !.log = Append(@, <<"POST", resp.status_code>>),
          !.pc = IF resp.status_code \in {201, 200} THEN "done"
                 ELSE IF resp.status_code = 409 THEN "get" ELSE "rejected",
          !.ret = IF resp.status_code \in {201, 200}
                  THEN PagesReturn(site_url(resp), "enabled") ELSE None]
    /\ PagesUnchanged

\* r2 = requests.get(...); if r2.ok: return {... "already_enabled" ...}
pages_get(ok) ==
    /\ pages.pc = "get"
    /\ pages' = [pages EXCEPT
          !.log = Append(@, <<"GET", IF ok THEN 200 ELSE 404>>),
          !.pc = IF ok THEN "done" ELSE "rejected",
          !.ret = IF ok
                  THEN PagesReturn("https://u.github.io/site/", "already_enabled")
                  ELSE None]
    /\ PagesUnchanged

\* error_msg = ...; if "private" in error_msg.lower() or repo.private:
\* repo.edit(private=False), which the API carries out or refuses; else the
\* raise at the end
pages_rejected(edited) ==
    /\ pages.pc = "rejected"
    /\ LET error_msg == pages.resp.message IN
       IF private_suspected(error_msg, pages.repo_private) THEN
          IF edited THEN
             pages' = [pages EXCEPT
                !.visibility = "public",
                !.log = Append(@, <<"PATCH", 200>>),
                !.pc = "retry"]
          ELSE
             pages' = [pages EXCEPT
                !.log = Append(@, <<"PATCH", 403>>),
                !.pc = "done",
                !.ret = PagesRaise("GithubException", <<"Forbidden">>)]
       ELSE
          /\ edited
          /\ pages' = [pages EXCEPT
                !.pc = "done",
                !.ret = PagesRaise("RuntimeError",
                           <<"Failed to enable GitHub Pages: ">> \o error_msg)]
    /\ PagesUnchanged

\* resp2 = requests.post(...): the return of the retry, or the raise at
\* the end
pages_retry(resp2) ==
    /\ pages.pc = "retry"
    /\ pages' = [pages EXCEPT
          !.log = Append(@, <<"POST", resp2.status_code>>),
          !.pc = "done",
          !.ret = IF resp2.status_code \in {201, 200}
                  THEN PagesReturn(site_url(resp2), "enabled (repo made public)")
                  ELSE PagesRaise("RuntimeError",
                          <<"Failed to enable GitHub Pages: ">>
                             \o pages.resp.message)]
    /\ PagesUnchanged

PagesNext ==
    \/ \E b \in PagesBranches, p \in PagesPaths : enable_github_pages(b, p)
    \/ \E resp \in PagesPosts : pages_post(resp)
    \/ \E ok \in BOOLEAN : pages_get(ok)
    \/ \E edited \in BOOLEAN : pages_rejected(edited)
    \/ \E resp2 \in PagesPosts : pages_retry(resp2)

PagesSpec == PagesInit /\ [][PagesNext]_vars

(***************************************************************************)
(* The Streamlit page on its own.  Every user interaction reruns the       *)
(* script from the top: the sidebar block reads the file_uploader widget,  *)
(* which keeps its file from run to run until the user removes it, then a  *)
(* prompt, if there is one, is handed to agent.chat.  AIAgent.chat is      *)
(* taken with its outcome only: it returns a text or raises.               *)
(***************************************************************************)
UploadedFiles == {"report.docx"}

\* prompts typed into st.chat_input
TypedPrompts ==
    {<<"Convert this file to PDF">>, <<"[MODE:", " File to PDF] typed">>}

\* (mode_name, intro_prompt) of the quick command buttons
quick_commands ==
    {<<"File to PDF",
       <<"[MODE:", " File to PDF] Ask the user to upload their file">> >>}

ChatResults == {"return", "raise"}

\* prompt.startswith(prefix)
startswith(s, prefix) == s # <<>> /\ s[1] = prefix

\* if not is_mode_intro: st.session_state.uploaded_file_path = None
clear_after_use(is_mode_intro) == ~is_mode_intro

\* the sidebar block: if uploaded_file: ... uploaded_file_path = file_path
sidebar_upload(uploaded_file, uploaded_file_path) ==
    IF uploaded_file # None THEN "uploads/" \o uploaded_file
    ELSE uploaded_file_path

NoChat == [prompt |-> <<>>, uploaded_file_path |-> None, kind |-> "not run"]

UiInit ==
    /\ request = NoRequest
    /\ dumped = None
    /\ heap = <<>>
    /\ sess = <<>>
    /\ conversation_history = <<>>
    /\ pc = "streamlit"
    /\ response = NoResponse
    /\ idx = 0
    /\ tool_results = <<>>
    /\ result = [op |-> "init", kind |-> "return", value |-> PyNone]
    /\ hist0 = <<>>
    /\ calls = 0
    /\ last_exec = NoExec
    /\ git = None
    /\ pages = None
    /\ routed = None
    /\ ui = [uploaded_file |-> None, uploaded_file_path |-> None,
             quick_command |-> None, active_mode |-> None, messages |-> <<>>,
             turns |-> 0, chat |-> NoChat, uploaded_since_use |-> FALSE]

UiUnchanged ==
    UNCHANGED <<conversation_history, pc, response, idx, tool_results, result,
                hist0, calls, last_exec, request, dumped, heap, sess, git,
                pages, routed>>

\* "# Process user input": the script from `if prompt:` to its end, after
\* the sidebar block of the same run
process_input(state, prompt, chat_result) ==
    LET is_mode_intro == startswith(prompt, "[MODE:")
        path == sidebar_upload(state.uploaded_file, state.uploaded_file_path)
        shown == IF is_mode_intro THEN state.messages
                 ELSE Append(state.messages,
                             [role |-> "user", content |-> prompt])
    IN [state EXCEPT
          !.active_mode = IF is_mode_intro THEN @ ELSE None,
          !.messages = IF chat_result = "return"
                       THEN Append(shown, [role |-> "assistant",
                                           content |-> <<"4">>])
                       ELSE shown,
          !.uploaded_file_path =
               IF chat_result = "return" /\ clear_after_use(is_mode_intro)
               THEN None ELSE path,
          !.uploaded_since_use =
               IF chat_result = "return" /\ clear_after_use(is_mode_intro)
               THEN FALSE ELSE @,
          !.turns = @ + 1,
          !.chat = [prompt |-> prompt, uploaded_file_path |-> path,
                    kind |-> chat_result]]

\* the user drops a file on the uploader: a run without a prompt
UploadFile(f) ==
    /\ ui.quick_command = None
    /\ ui.uploaded_file = None
    /\ ui' = [ui EXCEPT
                !.uploaded_file = f,
                !.uploaded_file_path = sidebar_upload(f, @),
                !.uploaded_since_use = TRUE]
    /\ UiUnchanged

\* the user removes the file from the uploader: a run without a prompt
RemoveFile ==
    /\ ui.quick_command = None
    /\ ui.uploaded_file # None
    /\ ui' = [ui EXCEPT !.uploaded_file = None]
    /\ UiUnchanged

\* the user submits the chat input
SubmitPrompt(prompt, chat_result) ==
    /\ ui.quick_command = None
    /\ ui.turns < MaxTurns
    /\ ui' = process_input(ui, prompt, chat_result)
    /\ UiUnchanged

\* a quick command button: active_mode and quick_command are set, st.rerun()
QuickCommand(qc) ==
    /\ ui.quick_command = None
    /\ ui.turns < MaxTurns
    /\ ui' = [ui EXCEPT
                !.uploaded_file_path = sidebar_upload(ui.uploaded_file, @),
                !.active_mode = qc[1],
                !.quick_command = qc[2]]
    /\ UiUnchanged

\* the rerun after the button: prompt = quick_command; quick_command = None
Rerun(chat_result) ==
    /\ ui.quick_command # None
    /\ ui' = process_input([ui EXCEPT !.quick_command = None],
                           ui.quick_command, chat_result)
    /\ UiUnchanged

\* the Clear Conversation button
ClearConversation ==
    /\ ui.quick_command = None
    /\ ui.messages # <<>>
    /\ ui' = [ui EXCEPT
                !.uploaded_file_path = sidebar_upload(ui.uploaded_file, @),
                !.messages = <<>>,
                !.active_mode = None]
    /\ UiUnchanged

UiNext ==
    \/ \E f \in UploadedFiles : UploadFile(f)
    \/ RemoveFile
    \/ \E p \in TypedPrompts, r \in ChatResults : SubmitPrompt(p, r)
    \/ \E qc \in quick_commands : QuickCommand(qc)
    \/ \E r \in ChatResults : Rerun(r)
    \/ ClearConversation

UiSpec == UiInit /\ [][UiNext]_vars

(***************************************************************************)
(* The router on its own: detect_task_type applied to messages put         *)
(* together from words, character by character, so that a keyword can be   *)
(* met inside a word, across two words, or in another case.                *)
(***************************************************************************)
\* the most words of a message
MaxWords == 2

TaskType ==
    {"code", "salesforce", "document", "image", "pdf_conversion",
     "instagram_reel", "youtube_video", "qa"}

\* _ROUTES: (keywords, task), the keywords as sequences of characters
_ROUTES ==
    <<
      [keywords |->
         {<<"a", "p", "e", "x">>,
          <<"l", "w", "c">>,
          <<"s", "o", "q", "l">>,
          <<"s", "a", "l", "e", "s", "f", "o", "r", "c", "e">>,
          <<"t", "r", "i", "g", "g", "e", "r">>,
          <<"b", "a", "t", "c", "h">>,
          <<"g", "o", "v", "e", "r", "n", "o", "r">>,
          <<"c", "p", "q">>},
       task |-> "salesforce"],
      [keywords |->
         {<<"i", "n", "s", "t", "a", "g", "r", "a", "m">>,
          <<"r", "e", "e", "l">>,
          <<"t", "i", "k", "t", "o", "k">>,
          <<"s", "h", "o", "r", "t", " ", "v", "i", "d", "e", "o">>},
       task |-> "instagram_reel"],
      [keywords |->
         {<<"y", "o", "u", "t", "u", "b", "e">>,
          <<"v", "i", "d", "e", "o", " ", "s", "c", "r", "i", "p", "t">>,
          <<"y", "o", "u", "t", "u", "b", "e", " ", "s", "c", "r", "i", "p", "t">>,
          <<"y", "t", " ", "v", "i", "d", "e", "o">>},
       task |-> "youtube_video"],
      [keywords |->
         {<<"c", "o", "n", "v", "e", "r", "t", " ", "t", "o", " ", "p", "d", "f">>,
          <<"i", "m", "a", "g", "e", " ", "t", "o", " ", "p", "d", "f">>,
          <<"w", "o", "r", "d", " ", "t", "o", " ", "p", "d", "f">>,
          <<"e", "x", "c", "e", "l", " ", "t", "o", " ", "p", "d", "f">>,
          <<"p", "p", "t", "x", " ", "t", "o", " ", "p", "d", "f">>},
       task |-> "pdf_conversion"],
      [keywords |->
         {<<"m", "o", "d", "i", "f", "y", " ", "d", "o", "c", "u", "m", "e", "n", "t">>,
          <<"e", "d", "i", "t", " ", "w", "o", "r", "d">>,
          <<"e", "d", "i", "t", " ", "e", "x", "c", "e", "l">>,
          <<"e", "d", "i", "t", " ", "d", "o", "c", "x">>,
          <<"u", "p", "d", "a", "t", "e", " ", "s", "p", "r", "e", "a", "d", "s", "h", "e", "e", "t">>},
       task |-> "document"],
      [keywords |->
         {<<"r", "e", "s", "i", "z", "e", " ", "i", "m", "a", "g", "e">>,
          <<"w", "a", "t", "e", "r", "m", "a", "r", "k">>,
          <<"c", "r", "o", "p", " ", "i", "m", "a", "g", "e">>,
          <<"c", "o", "n", "v", "e", "r", "t", " ", "i", "m", "a", "g", "e">>,
          <<"a", "d", "j", "u", "s", "t", " ", "b", "r", "i", "g", "h", "t", "n", "e", "s", "s">>},
       task |-> "image"],
      [keywords |->
         {<<"w", "r", "i", "t", "e", " ", "c", "o", "d", "e">>,
          <<"d", "e", "b", "u", "g">>,
          <<"f", "i", "x", " ", "c", "o", "d", "e">>,
          <<"f", "u", "n", "c", "t", "i", "o", "n">>,
          <<"c", "l", "a", "s", "s">>,
          <<"s", "c", "r", "i", "p", "t">>,
          <<"i", "m", "p", "l", "e", "m", "e", "n", "t">>},
       task |-> "code"]>>

\* the words messages are made of
Words ==
    {<<"A", "p", "e", "x", " ">>,
     <<"e", "d", "i", "t", " ", "w", "o", "r", "d", " ">>,
     <<"r", "e", "e", "l">>,
     <<"f", "r", "e", "e", "l", "y", " ">>,
     <<"Y", "o", "u", "T", "u", "b", "e", " ">>,
     <<"v", "i", "d", "e", "o", " ">>,
     <<"s", "h", "o", "r", "t", " ">>,
     <<"c", "o", "n", "v", "e", "r", "t", " ", "t", "o", " ", "P", "D", "F">>,
     <<"w", "a", "t", "e", "r", "m", "a", "r", "k", " ">>,
     <<"c", "l", "a", "s", "s", "i", "c", " ">>,
     <<"s", "c", "r", "i", "p", "t">>,
     <<"h", "e", "l", "l", "o", " ">>,
     <<"D", "E", "B", "U", "G">>}

RECURSIVE MessagesOf(_)
MessagesOf(n) ==
    IF n = 0 THEN {<<>>}
    ELSE LET shorter == MessagesOf(n - 1)
         IN shorter \cup {m \o w : m \in shorter, w \in Words}

Messages == MessagesOf(MaxWords)

\* kw in lower, character by character
Substring(kw, s) ==
    \E i \in 1..(Len(s) - Len(kw) + 1) : SubSeq(s, i, i + Len(kw) - 1) = kw

\* any(kw in lower for kw in keywords)
any_keyword(keywords, lowered) == \E kw \in keywords : Substring(kw, lowered)

\* mutant: the routes are tried from the last to the first
RECURSIVE for_routes_reversed(_, _)
for_routes_reversed(lowered, k) ==
    IF k > Len(_ROUTES) THEN "qa"
    ELSE LET route == _ROUTES[Len(_ROUTES) - k + 1] IN
         IF any_keyword(route.keywords, lowered) THEN route.task
         ELSE for_routes_reversed(lowered, k + 1)

\* for keywords, task in _ROUTES: if any(...): return task; return "qa"
RECURSIVE for_routes(_, _)
for_routes(lowered, k) ==
    IF k > Len(_ROUTES) THEN "qa"
    ELSE IF any_keyword(_ROUTES[k].keywords, lowered) THEN _ROUTES[k].task
    ELSE for_routes(lowered, k + 1)

detect_task_type(message) == for_routes(lower(message), 1)

NotRouted == "not routed"

RouteInit ==
    /\ request = NoRequest
    /\ dumped = None
    /\ heap = <<>>
    /\ sess = <<>>
    /\ conversation_history = <<>>
    /\ pc = "router"
    /\ response = NoResponse
    /\ idx = 0
    /\ tool_results = <<>>
    /\ result = [op |-> "init", kind |-> "return", value |-> PyNone]
    /\ hist0 = <<>>
    /\ calls = 0
    /\ last_exec = NoExec
    /\ git = None
    /\ pages = None
    /\ ui = None
    /\ \E message \in Messages :
          routed = [message |-> message, out |-> NotRouted, n |-> 0]

\* detect_task_type(message), called a first and a second time
Route ==
    /\ pc = "router"
    /\ routed.n < 2
    /\ routed' = [routed EXCEPT !.out = detect_task_type(routed.message),
                                !.n = @ + 1]
    /\ UNCHANGED <<conversation_history, pc, response, idx, tool_results,
                   result, hist0, calls, last_exec, request, dumped, heap,
                   sess, git, pages, ui>>

RouteNext == Route

RouteSpec == RouteInit /\ [][RouteNext]_vars

(***************************************************************************)
(* Properties.                                                             *)
(***************************************************************************)
IsPrefix(a, b) == Len(a) <= Len(b) /\ SubSeq(b, 1, Len(a)) = a
Last(q) == q[Len(q)]

IsUserText(m) == m.role = "user" /\ m.content.t = "str"
IsToolCalls(m) == m.role = "assistant" /\ m.content.t = "blocks"
IsToolResults(m) == m.role = "user" /\ m.content.t = "list"
IsFinalText(m) == m.role = "assistant" /\ m.content.t = "str"

IsToolUse(b) == b.type = "tool_use"
ToolUses(content) == SelectSeq(content, IsToolUse)

\* the chat call is at a model invocation, or has exited
AtModelCall == pc = "model_call"
ChatExited == pc = "idle" /\ result.op = "chat"
Returned == ChatExited /\ result.kind = "return"
Raised == ChatExited /\ result.kind = "raise"
ReturnedOn(stop_reason) == Returned /\ response.stop_reason = stop_reason

\* every tool_use block of an assistant message is answered, by id, in the
\* user message right after it
Matched(history) ==
    \A i \in 1..Len(history) :
        IsToolCalls(history[i]) =>
            /\ i < Len(history)
            /\ IsToolResults(history[i + 1])
            /\ \A j \in 1..Len(history[i].content.v) :
                 IsToolUse(history[i].content.v[j]) =>
                    \E r \in 1..Len(history[i + 1].content.v) :
                        history[i + 1].content.v[r].tool_use_id =
                            history[i].content.v[j].id

\* C1: at every model invocation inside chat, and whenever chat has exited
\* (returned or raised), every tool_use block in conversation_history has a
\* tool_result with its id in the user message immediately after it.
C1_NoUnmatchedToolCall ==
    (AtModelCall \/ pc = "idle") => Matched(conversation_history)

\* a chat call that ran a tool round with a tool_use block and then ended by
\* an exception of the model API
C1_Witness ==
    /\ Raised
    /\ calls >= 2
    /\ \E i \in 1..Len(conversation_history) :
         /\ IsToolCalls(conversation_history[i])
         /\ ToolUses(conversation_history[i].content.v) # <<>>

Executed == last_exec.out # NotRun

\* C2: for every tool name and argument mapping, whatever the collaborator
\* does, execute_tool returns a string and does not raise.
C2_ReturnsString ==
    (pc = "dispatcher" /\ Executed) =>
        /\ last_exec.out.kind = "return"
        /\ last_exec.out.value.t = "str"

\* C3: the user message appended after a tool_use response with N tool_use
\* blocks holds exactly N tool_result blocks, the i-th with the id of the i-th
\* tool_use block and with execute_tool's result for that block as content.
C3_ResultsInRequestOrder ==
    /\ \A i \in 1..(Len(conversation_history) - 1) :
         IsToolCalls(conversation_history[i]) =>
            LET uses == ToolUses(conversation_history[i].content.v)
                res == conversation_history[i + 1].content.v
            IN /\ IsToolResults(conversation_history[i + 1])
               /\ Len(res) = Len(uses)
               /\ \A j \in 1..Len(uses) :
                    /\ res[j].type = "tool_result"
                    /\ res[j].tool_use_id = uses[j].id
                    /\ \E c \in ChatOutcomes :
                         res[j].content =
                            execute_tool(uses[j].name, uses[j].input, c).value
    /\ (pc = "tool_loop" /\ Executed) =>
         /\ tool_results # <<>>
         /\ Last(tool_results).content = last_exec.out.value

\* a tool_use response with two tool_use blocks for different tools has been
\* answered
C3_Witness ==
    \E i \in 1..(Len(conversation_history) - 1) :
        /\ IsToolCalls(conversation_history[i])
        /\ LET uses == ToolUses(conversation_history[i].content.v)
           IN Len(uses) = 2 /\ uses[1].name # uses[2].name

\* C4: when the model API call raises during chat, conversation_history is
\* left as it was before that chat call.
C4_FailedCallLeavesNothing ==
    Raised => conversation_history = hist0

\* C5: on a stop_reason other than tool_use and end_turn chat returns the
\* generic error string and the aborted turn leaves no unanswered message at
\* the end of conversation_history.
C5_UnexpectedStopLeavesNoPartial ==
    ReturnedOn("max_tokens") =>
        /\ result.value = PyStr(UnexpectedError)
        /\ Len(conversation_history) > Len(hist0) =>
              Last(conversation_history).role = "assistant"

\* C6: during and after every chat call, however it ends, the
\* conversation_history the call was entered with is a prefix of the current
\* conversation_history.
C6_HistoryAppendOnly ==
    (pc \in {"model_call", "tool_loop"} \/ ChatExited) =>
        IsPrefix(hist0, conversation_history)

\* a chat call entered with a non-empty history that ran a tool round and
\* ended on an unexpected stop reason
C6_Witness ==
    /\ ReturnedOn("max_tokens")
    /\ hist0 # <<>>
    /\ Len(conversation_history) >= Len(hist0) + 3

\* C7: a chat call answered tool_use k times and then end_turn has appended
\* exactly 2k+2 messages: the user text, k pairs of (assistant tool calls,
\* user tool results), the assistant's final text.
C7_TurnAppends ==
    ReturnedOn("end_turn") =>
        LET k == calls - 1
            n == Len(hist0)
            h == conversation_history
        IN /\ Len(h) = n + 2 * k + 2
           /\ IsPrefix(hist0, h)
           /\ IsUserText(h[n + 1])
           /\ \A j \in 1..k :
                IsToolCalls(h[n + 2 * j]) /\ IsToolResults(h[n + 2 * j + 1])
           /\ IsFinalText(h[Len(h)])

\* a chat call with two tool rounds has returned its final answer
C7_Witness == ReturnedOn("end_turn") /\ calls = 3

\* C8: after reset_conversation conversation_history is empty, and the chat
\* call that follows it starts from a history holding only its own user
\* message.
C8_ResetClears ==
    /\ []((pc = "idle" /\ result.op = "reset") => conversation_history = <<>>)
    /\ [][(result.op = "reset" /\ pc = "idle" /\ pc' = "model_call") =>
             /\ Len(conversation_history') = 1
             /\ IsUserText(conversation_history'[1])]_vars

\* the first model invocation of a chat call made right after a reset
C8_Witness ==
    /\ AtModelCall
    /\ calls = 0
    /\ result.op = "reset"
    /\ Len(conversation_history) = 1

ToolError(exc) == PyStr(<<"[X] Tool error: ">> \o exc.msg)

\* C9: when the collaborator of a requested tool call raises, the string
\* "[X] Tool error: " followed by the exception message becomes that call's
\* tool_result, chat stays in its loop (it goes on to the next block or to the
\* next model invocation), and a later end_turn response is returned to the
\* caller.
C9_ToolFailureDoesNotAbort ==
    /\ []((/\ pc = "tool_loop"
           /\ Executed
           /\ last_exec.collab.kind = "raise"
           /\ last_exec.out.calls # <<>>) =>
              /\ tool_results # <<>>
              /\ Last(tool_results).content = ToolError(last_exec.collab.exc)
              /\ Last(tool_results).tool_use_id =
                    Last(ToolUses(SubSeq(response.content, 1, idx - 1))).id)
    /\ [][pc = "tool_loop" => pc' \in {"tool_loop", "model_call"}]_vars
    /\ [](ReturnedOn("end_turn") =>
              result.value = PyStr(final_text(response.content)))

\* the final answer was returned by a chat call whose last tool round holds
\* the failure string of a collaborator that raised
C9_Witness ==
    /\ ReturnedOn("end_turn")
    /\ Len(conversation_history) >= Len(hist0) + 4
    /\ LET res == conversation_history[Len(conversation_history) - 1]
       IN /\ IsToolResults(res)
          /\ \E r \in 1..Len(res.content.v) :
                \E e \in Exceptions : res.content.v[r].content = ToolError(e)

\* C10: for a tool_name that is no entry of TOOLS, execute_tool returns a
\* string made of the "Unknown tool" marker and that name, does not raise and
\* calls no collaborator.
C10_UnknownTool ==
    (pc = "dispatcher" /\ Executed /\ last_exec.name \notin ToolNames) =>
        /\ last_exec.out.kind = "return"
        /\ last_exec.out.value.t = "str"
        /\ last_exec.out.value.v[1] = "[X] Unknown tool: "
        /\ Contains(last_exec.out.value.v, last_exec.name)
        /\ last_exec.out.calls = <<>>

\* execute_tool has run for an unregistered name with arguments, with a
\* collaborator that would raise if called
C10_Witness ==
    /\ pc = "dispatcher"
    /\ Executed
    /\ last_exec.name = "no_such_tool"
    /\ DOMAIN last_exec.input # {}
    /\ last_exec.collab.kind = "raise"

(***************************************************************************)
(* C11: on an end_turn response chat returns the texts of the text blocks  *)
(* of the response joined in block order, blocks of other types adding     *)
(* nothing; the returned string is the content of the assistant message    *)
(* that is last in conversation_history, and is empty when the response    *)
(* has no text block.                                                      *)
(***************************************************************************)
RECURSIVE TextsInOrder(_)
TextsInOrder(content) ==
    IF content = <<>> THEN <<>>
    ELSE (IF Head(content).type = "text" THEN Head(content).text ELSE <<>>)
         \o TextsInOrder(Tail(content))

C11_FinalTextIsJoinedAndStored ==
    ReturnedOn("end_turn") =>
        /\ result.value = PyStr(TextsInOrder(response.content))
        /\ Last(conversation_history) = Message("assistant", result.value)
        /\ (\A i \in 1..Len(response.content) :
                response.content[i].type # "text") => result.value = PyStr(<<>>)

C11_Witness ==
    /\ ReturnedOn("end_turn")
    /\ Len(response.content) = 3
    /\ response.content[1].type = "text"
    /\ response.content[2].type = "tool_use"
    /\ response.content[3].type = "text"
    /\ response.content[1].text = <<"4">>
    /\ response.content[3].text = <<"2">>
    /\ result.value = PyStr(<<"4", "2">>)

(***************************************************************************)
(* C12 (as stated): when the child process of execute_code, or of          *)
(* shell_execute with action run_command, times out or exits non-zero,     *)
(* execute_tool returns a string that carries the failure marker.          *)
(***************************************************************************)
RanSubprocess ==
    /\ Executed
    /\ last_exec.out.calls # <<>>
    /\ last_exec.out.calls[1].fn \in {"execute_python_code", "run_command"}
    /\ last_exec.collab.kind = "return"

FailureMarkers ==
    {"[X] Tool error: ", "[X] Unknown tool: ", "[X] Unknown image operation: ",
     "[X] Unknown github_operation action: ",
     "[X] Unknown shell_execute action: "}

FailureMarked(out) ==
    /\ out.kind = "return"
    /\ out.value.t = "str"
    /\ out.value.v # <<>>
    /\ out.value.v[1] \in FailureMarkers

C12_SubprocessFailureIsMarked ==
    (RanSubprocess /\ last_exec.collab.proc \in {"exit 1", "timeout"})
        => FailureMarked(last_exec.out)

(***************************************************************************)
(* C12 (amended): a timeout or a non-zero exit of the child process is     *)
(* reported by the collaborator in the dict it returns, and execute_tool   *)
(* returns that dict JSON-encoded, without the failure marker: its         *)
(* "success" is false exactly when the child did not exit 0, and on a      *)
(* timeout its "return_code" is -1.  The marked "Tool error" string is     *)
(* returned when the collaborator raises.                                  *)
(***************************************************************************)
\* the encoded value of the top-level key k in the JSON text s
Field(s, k) ==
    LET i == CHOOSE i \in 2..(Len(s) - 2) : s[i - 1] = "\n  \"" /\ s[i] = k
    IN s[i + 2]

C12_SubprocessFailureIsPayload ==
    /\ RanSubprocess =>
          /\ last_exec.out.kind = "return"
          /\ ~FailureMarked(last_exec.out)
          /\ last_exec.out.value.v[1] = "{"
          /\ Field(last_exec.out.value.v, "success")
                = Bool(last_exec.collab.proc = "exit 0")
          /\ last_exec.collab.proc = "timeout"
                => Field(last_exec.out.value.v, "return_code") = "-1"
          /\ last_exec.collab.proc = "exit 1"
                => Field(last_exec.out.value.v, "return_code") = "1"
    /\ (/\ Executed
        /\ last_exec.out.calls # <<>>
        /\ last_exec.out.calls[1].fn \in {"execute_python_code", "run_command"}
        /\ last_exec.collab.kind = "raise")
          => last_exec.out.value = ToolError(last_exec.collab.exc)

C12_Witness ==
    /\ RanSubprocess
    /\ last_exec.name = "execute_code"
    /\ last_exec.collab.proc = "timeout"
    /\ Field(last_exec.out.value.v, "success") = "false"
    /\ ~FailureMarked(last_exec.out)

(***************************************************************************)
(* C13: two AIAgent instances share no conversation state.  A step of one  *)
(* session's agent (__init__, chat, reset_conversation) leaves the         *)
(* conversation_history of every other agent as it was; and the history    *)
(* of an agent, and the messages it sends to the model, hold texts of its  *)
(* own session only, the messages sent being its own history.              *)
(***************************************************************************)
\* the session a message belongs to
Owner(m) ==
    IF m.content.t = "str" THEN m.content.v[2]
    ELSE IF m.content.t = "blocks" THEN m.content.v[1].input.query
    ELSE m.content.v[1].content.v[2]

OwnOnly(s, messages) ==
    \A i \in 1..Len(messages) : Owner(messages[i]) = s

C13_SessionsIsolated ==
    /\ [](\A s \in Sessions :
            /\ OwnOnly(s, Hist(s))
            /\ OwnOnly(s, sess[s].sent)
            /\ IsPrefix(sess[s].sent, Hist(s)))
    /\ [][\A s, t \in Sessions :
            (s # t /\ SessStep(s)) => Hist(t)' = Hist(t)]_vars

C13_Witness ==
    /\ Len(Hist("s1")) = 3
    /\ sess["s1"].sent = SubSeq(Hist("s1"), 1, 1)
    /\ sess["s1"].pc = "model_call"
    /\ Len(Hist("s2")) = 1
    /\ sess["s2"].pc = "model_call"
    /\ sess["s1"].agent # sess["s2"].agent

(***************************************************************************)
(* C14: the registry and the dispatcher are in lock-step.  The names of    *)
(* TOOLS are the names the dispatcher's if/elif chain tests: execute_tool  *)
(* gives the "Unknown tool" outcome for no registered name and for every   *)
(* other name.  For modify_image, github_operation and shell_execute the   *)
(* enum of the operation/action property is the set of values the branch   *)
(* tests: no enum value gives the "Unknown operation/action" outcome, and  *)
(* a value outside the enum reaches no collaborator.                       *)
(***************************************************************************)
\* the tool names compared with tool_name in execute_tool
DispatcherBranches ==
    {"convert_to_pdf", "modify_document", "modify_image", "execute_code",
     "salesforce_query", "create_video_content", "web_search", "forum_search",
     "deep_research", "fetch_url", "github_operation", "shell_execute"}

\* the values compared with op / action in the three branches
SelectorBranches ==
    [modify_image |-> {"resize", "convert_format", "add_watermark", "adjust"},
     github_operation |-> {"create_repo", "push_files", "enable_pages",
                           "list_repos", "get_repo", "get_user",
                           "create_release", "read_file", "create_workflow"},
     shell_execute |-> {"run_command", "write_file", "read_file",
                        "list_directory", "system_info", "git_push",
                        "git_clone"}]

StartsWith(out, prefixes) ==
    /\ out.kind = "return"
    /\ out.value.t = "str"
    /\ out.value.v # <<>>
    /\ out.value.v[1] \in prefixes

IsUnknownTool(out) == StartsWith(out, {"[X] Unknown tool: "})
IsUnknownSelector(out) ==
    StartsWith(out, {"[X] Unknown image operation: ",
                     "[X] Unknown github_operation action: ",
                     "[X] Unknown shell_execute action: "})

C14_RegistryAndDispatcherInLockStep ==
    /\ ToolNames = DispatcherBranches
    /\ \A name \in DOMAIN SelectorBranches :
          Schema(name).enum = SelectorBranches[name]
    /\ Executed =>
          /\ last_exec.name \in ToolNames <=> ~IsUnknownTool(last_exec.out)
          /\ (/\ last_exec.name \in DOMAIN SelectorBranches
              /\ Selector(last_exec.name) \in DOMAIN last_exec.input) =>
                LET value == last_exec.input[Selector(last_exec.name)] IN
                /\ value \in Schema(last_exec.name).enum
                      => ~IsUnknownSelector(last_exec.out)
                /\ value \notin Schema(last_exec.name).enum
                      => /\ last_exec.out.calls = <<>>
                         /\ \/ IsUnknownSelector(last_exec.out)
                            \/ StartsWith(last_exec.out, {"[X] Tool error: "})

C14_Witness ==
    /\ Executed
    /\ last_exec.name = "modify_image"
    /\ "operation" \in DOMAIN last_exec.input
    /\ last_exec.input["operation"] = "adjust"
    /\ last_exec.out.calls # <<>>
    /\ last_exec.out.calls[1].fn = "adjust_image"

(***************************************************************************)
(* C15 (as stated): chat never invokes execute_tool with a tool name that  *)
(* is absent from TOOLS, whatever names the tool_use blocks of the         *)
(* response carry.                                                         *)
(***************************************************************************)
C15_OnlyRegisteredNamesDispatched ==
    (pc \in {"tool_loop", "model_call", "idle"} /\ Executed)
        => last_exec.name \in ToolNames

(***************************************************************************)
(* C15 (amended): chat does not check tool names.  It invokes execute_tool *)
(* with the name of every tool_use block it comes to, registered or not;   *)
(* for a name absent from TOOLS no collaborator is invoked, the call       *)
(* returns the "Unknown tool" string, that string becomes the block's      *)
(* tool_result and the loop goes on.                                       *)
(***************************************************************************)
C15_EveryNameDispatched ==
    (pc \in {"tool_loop", "model_call", "idle"} /\ Executed) =>
        LET uses == ToolUses(SubSeq(response.content, 1, idx - 1)) IN
        /\ pc = "tool_loop"
        /\ uses # <<>>
        /\ Len(tool_results) = Len(uses)
        /\ last_exec.name = Last(uses).name
        /\ last_exec.name \notin ToolNames =>
              /\ last_exec.out =
                    Returns(PyStr(<<"[X] Unknown tool: ", last_exec.name>>),
                            <<>>)
              /\ Last(tool_results) =
                    [type |-> "tool_result", tool_use_id |-> Last(uses).id,
                     content |-> last_exec.out.value]

C15_Witness ==
    /\ pc = "tool_loop"
    /\ Executed
    /\ last_exec.name = "no_such_tool"
    /\ last_exec.name \notin ToolNames
    /\ Len(tool_results) = 2
    /\ tool_results[1].content.v[1] = "[OK] Successfully converted to PDF: "
    /\ tool_results[2].content.v[1] = "[X] Unknown tool: "

(***************************************************************************)
(* C16: when a key that the selected branch of execute_tool reads with     *)
(* tool_input[...] is missing from the argument mapping, execute_tool      *)
(* returns the string "[X] Tool error: " followed by the KeyError's text   *)
(* (the quoted name of a missing key); it does not raise and has invoked   *)
(* no collaborator.                                                        *)
(***************************************************************************)
\* the keys read by subscript under each value of a branch's selector
SubscriptedUnder ==
    [modify_document |->
        [word |-> {"input_path"}, excel |-> {"input_path"}],
     modify_image |->
        [resize |-> {"input_path", "width", "height"},
         convert_format |-> {"input_path", "target_format"},
         add_watermark |-> {"input_path", "watermark_text"},
         adjust |-> {"input_path"},
         bogus |-> {"input_path"}],
     create_video_content |->
        [instagram_reel |-> {"topic"}, youtube |-> {"topic"},
         bogus |-> {"topic"}],
     github_operation |->
        [create_repo |-> {"repo_name"},
         push_files |-> {"repo_name", "files"},
         enable_pages |-> {"repo_name"},
         get_repo |-> {"repo_name"},
         create_release |-> {"repo_name", "tag", "release_title"},
         read_file |-> {"repo_name", "file_path"},
         create_workflow |-> {"repo_name", "workflow_name", "workflow_yaml"}],
     shell_execute |->
        [run_command |-> {"command"},
         write_file |-> {"file_path", "content"},
         read_file |-> {"file_path"},
         git_push |-> {"local_dir", "remote_url"},
         git_clone |-> {"repo_url"}]]

\* the keys read by subscript in the branches that have no selector
Subscripted ==
    [convert_to_pdf |-> {"input_path"}, execute_code |-> {"code"},
     salesforce_query |-> {"soql"}, web_search |-> {"query"},
     forum_search |-> {"query"}, deep_research |-> {"topic"},
     fetch_url |-> {"url"}]

\* the keys the call of execute_tool(tool_name, tool_input) reads as
\* mandatory
MandatoryKeys(tool_name, tool_input) ==
    IF tool_name \in DOMAIN Subscripted THEN Subscripted[tool_name]
    ELSE IF tool_name \in DOMAIN SubscriptedUnder THEN
        LET sel == Selector(tool_name) IN
        IF sel \notin DOMAIN tool_input THEN {sel}
        ELSE IF tool_input[sel] \in DOMAIN SubscriptedUnder[tool_name]
             THEN {sel} \cup SubscriptedUnder[tool_name][tool_input[sel]]
             ELSE {sel}
    ELSE {}

C16_MissingArgumentIsToolError ==
    Executed =>
        LET missing == MandatoryKeys(last_exec.name, last_exec.input)
                          \ DOMAIN last_exec.input
        IN missing # {} =>
              /\ last_exec.out.kind = "return"
              /\ last_exec.out.calls = <<>>
              /\ \E k \in missing :
                    last_exec.out.value = ToolError(KeyError(k))

C16_Witness ==
    /\ Executed
    /\ last_exec.name = "github_operation"
    /\ "action" \in DOMAIN last_exec.input
    /\ last_exec.input["action"] = "create_repo"
    /\ "repo_name" \notin DOMAIN last_exec.input
    /\ last_exec.collab.kind = "return"
    /\ last_exec.out = Returns(ToolError(KeyError("repo_name")), <<>>)

(***************************************************************************)
(* C17 (as stated): the encoding is deterministic with a stable key order: *)
(* the same value encoded twice gives the same string, and two dicts that  *)
(* are the same mapping, whatever the order their keys were inserted in,   *)
(* give the same string.                                                   *)
(***************************************************************************)
Encoded == pc = "encoder" /\ dumped.out # NotEncoded

\* a and b hold the same keys with the same values (a == b in Python)
SameMapping(a, b) ==
    {a[i] : i \in 1..Len(a)} = {b[i] : i \in 1..Len(b)}

C17_SameMappingSameEncoding ==
    Encoded =>
        /\ dumped.out[1] = dumped.out[2]
        /\ SameMapping(dumped.a, dumped.b) => dumped.out[1] = dumped.out[3]

(***************************************************************************)
(* C17 (amended): the encoding is deterministic, and the keys are written  *)
(* in the dict's own order of insertion, not in a sorted order: the same   *)
(* value encoded twice gives the same string, and two dicts that are the   *)
(* same mapping give the same string exactly when their keys were inserted *)
(* in the same order.                                                      *)
(***************************************************************************)
\* the keys in the order the JSON text s writes them
WrittenKeys(s) ==
    LET at == SelectSeq([i \in 1..Len(s) |-> i],
                        LAMBDA i : i > 1 /\ s[i - 1] = "\n  \"")
    IN [n \in 1..Len(at) |-> s[at[n]]]

C17_EncodingFollowsInsertionOrder ==
    Encoded =>
        /\ dumped.out[1] = dumped.out[2]
        /\ WrittenKeys(dumped.out[1]) =
              [i \in 1..Len(dumped.a) |-> dumped.a[i][1]]
        /\ SameMapping(dumped.a, dumped.b) =>
              (dumped.out[1] = dumped.out[3] <=> dumped.a = dumped.b)

C17_Witness ==
    /\ Encoded
    /\ Len(dumped.a) = 2
    /\ SameMapping(dumped.a, dumped.b)
    /\ dumped.a # dumped.b
    /\ dumped.out[1] # dumped.out[3]
    /\ dumped.out[1] = dumped.out[2]

(***************************************************************************)
(* C18: chat has no iteration cap.  Whatever the number of tool rounds     *)
(* the running chat call has made, the next tool_use response is taken     *)
(* like the first (the only limit is the model's bound on the length of    *)
(* the history): after n rounds the model has been invoked n times, n      *)
(* pairs of tool-call and tool-result messages follow the user message,    *)
(* and the model is invoked once more, whatever n is.  A step that takes  *)
(* a tool_use response never makes chat return.                            *)
(***************************************************************************)
C18_NoIterationCap ==
    /\ [](AtModelCall =>
            /\ Len(conversation_history) = Len(hist0) + 1 + 2 * calls
            /\ \A j \in 1..calls :
                  /\ IsToolCalls(conversation_history[Len(hist0) + 2 * j])
                  /\ IsToolResults(conversation_history[Len(hist0) + 2 * j + 1])
            /\ ENABLED ModelRaises
            /\ ENABLED (\E c \in Contents("end_turn") :
                          ModelReturns("end_turn", c))
            /\ Len(conversation_history) + 3 <= MaxHistory =>
                  ENABLED (\E c \in Contents("tool_use") :
                              ModelReturns("tool_use", c)))
    /\ [][AtModelCall =>
             /\ (pc' = "idle" /\ result'.kind = "return")
                   => response'.stop_reason \in {"end_turn", "max_tokens"}
             /\ pc' = "tool_loop"
                   => /\ response'.stop_reason = "tool_use"
                      /\ calls' = calls + 1
                      /\ result' = result]_vars
    /\ [][pc = "tool_loop" =>
             \/ pc' = "tool_loop"
             \/ pc' = "model_call" /\ calls' = calls /\ result' = result]_vars

C18_Witness ==
    /\ AtModelCall
    /\ calls = 2
    /\ Len(conversation_history) = Len(hist0) + 5
    /\ request.messages = SubSeq(conversation_history, 1, Len(hist0) + 3)

(***************************************************************************)
(* C19: within one chat call events are strictly sequential.  While the    *)
(* tools of a response run, the assistant message holding the response's   *)
(* blocks is already the last message of the history; the blocks are       *)
(* taken one at a time in their order, so the results collected so far     *)
(* answer exactly the tool_use blocks before the loop's position, in       *)
(* order; the model is invoked again only after the last block, with the   *)
(* tool-result message holding every result appended; and a model          *)
(* invocation happens only when no tool loop is running.                   *)
(***************************************************************************)
C19_StrictlySequential ==
    /\ [](pc = "tool_loop" =>
            LET uses == ToolUses(SubSeq(response.content, 1, idx - 1)) IN
            /\ Last(conversation_history) =
                  Message("assistant", [t |-> "blocks", v |-> response.content])
            /\ idx \in 1..(Len(response.content) + 1)
            /\ Len(tool_results) = Len(uses)
            /\ \A i \in 1..Len(uses) : tool_results[i].tool_use_id = uses[i].id
            /\ Executed => last_exec.name = Last(uses).name)
    /\ [][(pc = "tool_loop" /\ pc' = "tool_loop") =>
             /\ idx' = idx + 1
             /\ Len(tool_results') \in {Len(tool_results), Len(tool_results) + 1}
             /\ IsPrefix(tool_results, tool_results')
             /\ UNCHANGED <<conversation_history, calls, request>>]_vars
    /\ [][(pc = "tool_loop" /\ pc' = "model_call") =>
             /\ idx = Len(response.content) + 1
             /\ Len(tool_results) = Len(ToolUses(response.content))
             /\ conversation_history' =
                   Append(conversation_history,
                          Message("user", PyList(tool_results)))
             /\ UNCHANGED <<calls, request>>]_vars
    /\ [][calls' = calls + 1 => (pc = "model_call" /\ last_exec = NoExec)]_vars

C19_Witness ==
    /\ AtModelCall
    /\ calls = 1
    /\ Len(conversation_history) = Len(hist0) + 3
    /\ IsToolCalls(conversation_history[Len(hist0) + 2])
    /\ Len(ToolUses(conversation_history[Len(hist0) + 2].content.v)) = 2
    /\ Len(conversation_history[Len(hist0) + 2].content.v) = 2
    /\ IsToolResults(Last(conversation_history))
    /\ Len(Last(conversation_history).content.v) = 2

(***************************************************************************)
(* C20: every model invocation of chat is given the whole                  *)
(* conversation_history as it is at that moment, the system prompt and     *)
(* the whole TOOLS list.  Of the messages one chat call appends, the first *)
(* is a user message carrying text and no other is: re-entering the loop   *)
(* after a tool round appends no user text.                                *)
(***************************************************************************)
C20_FullContextOneUserText ==
    /\ [][calls' = calls + 1 =>
             /\ request'.messages = conversation_history
             /\ request'.system = MASTER_SYSTEM_PROMPT
             /\ request'.tools = TOOLS]_vars
    /\ []((pc \in {"model_call", "tool_loop"} \/ ChatExited) =>
             /\ Len(conversation_history) > Len(hist0)
             /\ IsPrefix(hist0, conversation_history)
             /\ IsUserText(conversation_history[Len(hist0) + 1])
             /\ \A i \in (Len(hist0) + 2)..Len(conversation_history) :
                   ~IsUserText(conversation_history[i]))
    /\ [][(AtModelCall /\ calls > 0 /\ calls' = calls + 1) =>
             \A i \in 1..Len(conversation_history') :
                IsUserText(conversation_history'[i])
                   => /\ i <= Len(conversation_history)
                      /\ conversation_history'[i] = conversation_history[i]]_vars

C20_Witness ==
    /\ ReturnedOn("end_turn")
    /\ calls = 2
    /\ hist0 # <<>>
    /\ request.messages =
          SubSeq(conversation_history, 1, Len(conversation_history) - 1)
    /\ Len(request.messages) = Len(hist0) + 3
    /\ request.tools = TOOLS

(***************************************************************************)
(* C21: an optional argument that is absent from the argument mapping      *)
(* reaches the collaborator as the default the tool's schema documents     *)
(* (timeout_seconds 30 for execute_code and 120 for shell_execute's        *)
(* run_command, num_results 10 for web_search and forum_search,            *)
(* search_depth "advanced", max_chars 6000, branch "main" for              *)
(* github_operation); one that is present reaches it unchanged.            *)
(***************************************************************************)
\* the defaults written in the property descriptions of TOOLS
DocumentedDefaults ==
    [execute_code |-> [timeout_seconds |-> 30],
     web_search |-> [num_results |-> 10, search_depth |-> "advanced"],
     forum_search |-> [num_results |-> 10],
     fetch_url |-> [max_chars |-> 6000],
     github_operation |-> [branch |-> "main"],
     shell_execute |-> [timeout_seconds |-> 120]]

C21_DocumentedDefaultsApplied ==
    (/\ Executed
     /\ last_exec.name \in DOMAIN DocumentedDefaults
     /\ last_exec.out.calls # <<>>) =>
        LET args == last_exec.out.calls[1].args
            defaults == DocumentedDefaults[last_exec.name]
        IN \A k \in DOMAIN defaults :
              k \in DOMAIN args =>
                 args[k] = IF k \in DOMAIN last_exec.input
                           THEN last_exec.input[k] ELSE defaults[k]

C21_Witness ==
    /\ Executed
    /\ last_exec.name = "web_search"
    /\ DOMAIN last_exec.input = {"query", "num_results"}
    /\ last_exec.out.calls # <<>>
    /\ last_exec.out.calls[1].args.num_results = 3
    /\ last_exec.out.calls[1].args.search_depth = "advanced"

(***************************************************************************)
(* C22: the message chat appends first has role user; its content is the   *)
(* user text itself when the file reference is None or empty, and the      *)
(* user text followed by the annotation naming the file location when the  *)
(* reference is a non-empty string.  The messages stored before the call   *)
(* are left as they were.                                                  *)
(***************************************************************************)
Annotation(path) == <<"\n\n[Uploaded file available at: ", path, "]">>

C22_FirstMessageAnnotated ==
    [][\A m \in UserMessages, f \in TurnFileRefs :
          Chat(m, f) =>
             /\ Len(conversation_history') = Len(conversation_history) + 1
             /\ SubSeq(conversation_history', 1, Len(conversation_history))
                   = conversation_history
             /\ Last(conversation_history').role = "user"
             /\ Last(conversation_history').content =
                   PyStr(IF f = None \/ f = "" THEN m
                         ELSE m \o Annotation(f))
             /\ (Last(conversation_history').content = PyStr(m))
                   <=> (f = None \/ f = "")]_vars

C22_Witness ==
    /\ AtModelCall
    /\ Len(conversation_history) = 3
    /\ conversation_history[1].content \in {PyStr(m) : m \in UserMessages}
    /\ IsFinalText(conversation_history[2])
    /\ \E m \in UserMessages :
          conversation_history[3].content =
             PyStr(m \o Annotation("uploads/report.docx"))

(***************************************************************************)
(* C23: if every model call and every tool call returns and the model      *)
(* does not answer tool_use for ever, a running chat call returns.  It     *)
(* returns in the very step that takes the first response whose            *)
(* stop_reason is not tool_use, and once it has returned no model call     *)
(* and no tool call is made until chat is called again.                    *)
(***************************************************************************)
C23_ChatTerminates ==
    /\ (pc \in {"model_call", "tool_loop"}) ~> Returned
    /\ [][(AtModelCall /\ calls' = calls + 1
             /\ response'.stop_reason # "tool_use") =>
             /\ pc' = "idle"
             /\ result'.op = "chat"
             /\ result'.kind = "return"]_vars
    /\ [][pc = "idle" =>
             /\ calls' = calls \/ (calls' = 0 /\ pc' = "model_call")
             /\ request' = request \/ (request' = NoRequest /\ pc' = "model_call")
             /\ last_exec' = last_exec
             /\ tool_results' = tool_results]_vars

C23_Witness ==
    /\ ReturnedOn("max_tokens")
    /\ calls = 2
    /\ Len(conversation_history) = Len(hist0) + 3
    /\ last_exec = NoExec

(***************************************************************************)
(* C24: the messages handed to the model start with a user message and     *)
(* their roles alternate: no two neighbours have the same role.            *)
(***************************************************************************)
Alternates(messages) ==
    /\ messages # <<>> => messages[1].role = "user"
    /\ \A i \in 1..(Len(messages) - 1) : messages[i].role # messages[i + 1].role

C24_RolesAlternate ==
    /\ request # NoRequest => Alternates(request.messages)
    /\ AtModelCall => Alternates(conversation_history)

(***************************************************************************)
(* C25: for a multi-action tool, execute_tool invokes a collaborator only  *)
(* when the selector value is in the schema enum, and then the one that    *)
(* belongs to the value; for any other value it invokes none and returns a *)
(* string that names the value.                                            *)
(***************************************************************************)
\* the collaborator that belongs to each selector value
SelectorCollaborator ==
    [modify_document |->
        [word |-> "modify_word_document", excel |-> "modify_excel_file"],
     modify_image |->
        [resize |-> "resize_image", convert_format |-> "convert_image_format",
         add_watermark |-> "add_watermark", adjust |-> "adjust_image"],
     create_video_content |->
        [instagram_reel |-> "create_instagram_reel_script",
         youtube |-> "create_youtube_video_package"],
     github_operation |->
        [create_repo |-> "create_repository", push_files |-> "push_files",
         enable_pages |-> "enable_github_pages",
         list_repos |-> "list_repositories", get_repo |-> "get_repository",
         get_user |-> "get_github_user", create_release |-> "create_release",
         read_file |-> "read_file_from_repo",
         create_workflow |-> "create_workflow"],
     shell_execute |->
        [run_command |-> "run_command", write_file |-> "write_file",
         read_file |-> "shell_read_file", list_directory |-> "list_directory",
         system_info |-> "system_info", git_push |-> "git_init_and_push",
         git_clone |-> "git_clone"]]

C25_SelectorChoosesCollaborator ==
    /\ \A name \in DOMAIN SelectorCollaborator :
          DOMAIN SelectorCollaborator[name] = Schema(name).enum
    /\ (/\ pc = "dispatcher"
        /\ Executed
        /\ last_exec.name \in DOMAIN SelectorCollaborator
        /\ Selector(last_exec.name) \in DOMAIN last_exec.input) =>
          LET value == last_exec.input[Selector(last_exec.name)]
              out == last_exec.out
          IN /\ out.calls # <<>> =>
                   /\ value \in Schema(last_exec.name).enum
                   /\ \A i \in 1..Len(out.calls) :
                        out.calls[i].fn =
                           SelectorCollaborator[last_exec.name][value]
             /\ value \notin Schema(last_exec.name).enum =>
                   /\ out.calls = <<>>
                   /\ out.kind = "return"
                   /\ out.value.t = "str"
                   /\ Contains(out.value.v, value)

(***************************************************************************)
(* C26: git_init_and_push returns success true only if the last command,   *)
(* git push, was run and succeeded; when the sequence was cut short before *)
(* the push the returned success is false.                                 *)
(***************************************************************************)
C26_SuccessMeansPushed ==
    git.pc = "done" =>
        /\ git.ret.success =>
              /\ Len(git.ran) = 6
              /\ Last(git.ran) = "git push -u origin " \o git.branch
              /\ Last(git.results).success
        /\ Len(git.ran) < 6 => ~git.ret.success

(***************************************************************************)
(* C27: the six git commands are run in the order init, checkout -b, add,  *)
(* commit, remote add, push.  After a step that failed with a stderr       *)
(* without "already exists" no later step is run; after a step that        *)
(* succeeded, or failed with "already exists", the next step is run.  The  *)
(* returned steps are the executed steps, in execution order.              *)
(***************************************************************************)
SixCommands ==
    <<"git init", "git checkout -b " \o git.branch, "git add .",
      "git commit -m \"" \o git.commit_message \o "\"",
      "git remote add origin " \o git.remote_url,
      "git push -u origin " \o git.branch>>

HardFailure(r) == ~r.success /\ ~Contains(r.stderr, "already exists")

C27_StepsInOrderUntilHardFailure ==
    /\ [](git.pc # "idle" =>
            /\ IsPrefix(git.ran, SixCommands)
            /\ Len(git.results) = Len(git.ran)
            /\ (git.pc = "for") = (/\ Len(git.ran) < 6
                                   /\ \A k \in 1..Len(git.ran) :
                                        ~HardFailure(git.results[k]))
            /\ \A k \in 1..(Len(git.ran) - 1) : ~HardFailure(git.results[k])
            /\ git.pc = "done" =>
                  /\ Len(git.ret.steps) = Len(git.ran)
                  /\ \A k \in 1..Len(git.ran) :
                       /\ git.ret.steps[k].cmd = git.ran[k]
                       /\ git.ret.steps[k] = git.results[k])
    /\ [][git.pc = "for" =>
            /\ git'.ran = Append(git.ran, SixCommands[Len(git.ran) + 1])
            /\ Len(git'.results) = Len(git.results) + 1]_vars
    /\ [][git.pc \in {"return", "done"} =>
            \/ git'.ran = git.ran
            \/ git'.pc = "for" /\ git'.ran = <<>>]_vars
    /\ [](git.pc = "for" => ENABLED (\E proc \in GitProcesses : git_for(proc)))

C27_Witness ==
    /\ git.pc = "done"
    /\ Len(git.ran) = 3
    /\ ~git.results[2].success
    /\ Contains(git.results[2].stderr, "already exists")
    /\ HardFailure(git.results[3])
    /\ git.ret.steps[3].cmd = "git add ."
    /\ ~git.ret.success

(***************************************************************************)
(* C28: enable_github_pages makes the repository public only after a first *)
(* enable attempt was rejected for a private repository, and when it ends  *)
(* by raising the repository's visibility is what it was before the call.  *)
(***************************************************************************)
C28_VisibilityKeptOnFailure ==
    /\ (pages.pc # "idle" /\ pages.visibility # pages.before) =>
          /\ pages.before = "private"
          /\ pages.visibility = "public"
          /\ pages.log # <<>>
          /\ pages.log[1][1] = "POST"
          /\ pages.log[1][2] \notin {200, 201}
    /\ (pages.pc = "done" /\ pages.ret.kind = "raise") =>
          pages.visibility = pages.before

(***************************************************************************)
(* C29: an uploaded file reference is used for one turn.  After a chat     *)
(* call that returns for a prompt that is not a "[MODE:" intro,            *)
(* uploaded_file_path is cleared, and a later turn carries a file          *)
(* reference only if the user has uploaded a file again since; after a     *)
(* mode-intro prompt or a chat call that raises it is retained.            *)
(***************************************************************************)
ChatCalled == ui'.turns = ui.turns + 1

C29_FileUsedForOneTurn ==
    [][ChatCalled =>
         LET is_mode_intro == startswith(ui'.chat.prompt, "[MODE:") IN
         /\ (ui'.chat.kind = "return" /\ ~is_mode_intro)
               => ui'.uploaded_file_path = None
         /\ (ui'.chat.kind = "raise" \/ is_mode_intro)
               => ui'.uploaded_file_path = ui'.chat.uploaded_file_path
         /\ ui'.chat.uploaded_file_path # None => ui.uploaded_since_use]_vars

(***************************************************************************)
(* C30: detect_task_type returns "qa" exactly when no keyword of any route *)
(* is a substring of the lower-cased message; otherwise it returns the     *)
(* task of the first route, in the order salesforce, instagram_reel,       *)
(* youtube_video, pdf_conversion, document, image, code, that has a        *)
(* keyword in the message.  The result is one of the eight TaskType        *)
(* values and is the same every time the message is routed.                *)
(***************************************************************************)
Occurs(kw, message) ==
    \E i \in 1..Len(message) :
        /\ i + Len(kw) - 1 <= Len(message)
        /\ \A j \in 1..Len(kw) : lower(<<message[i + j - 1]>>) = <<kw[j]>>

Hit(k, message) == \E kw \in _ROUTES[k].keywords : Occurs(kw, message)

C30_FirstRouteWins ==
    /\ [k \in 1..Len(_ROUTES) |-> _ROUTES[k].task] =
          <<"salesforce", "instagram_reel", "youtube_video", "pdf_conversion",
            "document", "image", "code">>
    /\ [](routed.n > 0 =>
            /\ routed.out \in TaskType
            /\ routed.out = "qa" <=>
                  \A k \in 1..Len(_ROUTES) : ~Hit(k, routed.message)
            /\ routed.out # "qa" =>
                  \E k \in 1..Len(_ROUTES) :
                     /\ routed.out = _ROUTES[k].task
                     /\ Hit(k, routed.message)
                     /\ \A j \in 1..(k - 1) : ~Hit(j, routed.message))
    /\ [][routed.n > 0 => routed'.out = routed.out]_vars

\* a message with a keyword of instagram_reel and one of code, routed twice
C30_Witness ==
    /\ routed.n = 2
    /\ routed.out = "instagram_reel"
    /\ Hit(2, routed.message)
    /\ Hit(7, routed.message)
    /\ ~Hit(1, routed.message)

====
